---- MODULE Spec2Model ----
(***************************************************************************)
(* A model of the request execution pipeline of llm_router: the retry      *)
(* engine (utils/retry.py), the streaming relay (utils/streaming.py,       *)
(* clients/base.py, routers/openai.py), the content transformer            *)
(* (middleware/transform.py) and the header manipulator                    *)
(* (middleware/headers.py).                                                *)
(***************************************************************************)
EXTENDS Integers, Sequences, FiniteSets, TLC

VARIABLES
    \* ---- RetryHandler.execute_with_retry (utils/retry.py) ----
    config,          \* RetryHandler.config : RetryConfig
    rPc,             \* position in execute_with_retry
    attempt,         \* loop variable of line 79
    last_response,   \* local of line 77
    last_exception,  \* local of line 76
    rOutcome,        \* what the call returned or raised
    calls,           \* outcomes of the invocations of func(), in order
    sleeps,          \* the delays handed to asyncio.sleep, in order
    \* ---- a streaming call: generate / stream_response / _stream_request ----
    sPc,             \* where the chain of async generators stands
    respState,       \* the response of client.stream(): "none", "open", "closed"
    respOpens,       \* how often the async with of base.py:193 was entered
    respCloses,      \* how often it was exited
    clientCloses,    \* how often client.close() ran (routers/openai.py:104)
    chunks,          \* the byte chunks response.aiter_bytes() produced, in order
    upFailure,       \* the failure the upstream byte stream raised, or None
    frames,          \* what generate() yielded to its consumer, in order
    toConsumer,      \* the exception that reached the consumer of generate(), or None
    pending,         \* generators the event loop still has to finalize (aclose)
    \* ---- ContentTransformer (middleware/transform.py) ----
    tConfig,         \* config.transformations, as loaded
    transformations, \* ContentTransformer.transformations, after __init__
    tPc,             \* "init", "config_rejected", "build_failed", "built", "done", "raised"
    tData,           \* the body handed to transform_request
    tResult,         \* what transform_request returned
    tStages,         \* one record per stage transform_request ran
    tHeld,           \* per stage: the caller's objects its output still holds
    quotes_fields,   \* whether str() of the installed jsonpath_ng quotes a field
                     \* name that is no plain identifier (the version is not pinned)
    \* ---- HeaderManipulator (middleware/headers.py) ----
    hConfig,         \* HeaderManipulator.config : HeaderRuleConfig
    hExact,          \* HeaderManipulator._exact_drop_headers
    hCompiled,       \* HeaderManipulator._compiled_drop_patterns
    hPc,             \* "init", "built", "processed", "reprocessed"
    hIncoming,       \* the headers handed to process_headers
    hResult,         \* what process_headers returned
    \* ---- the calls of BaseClient._make_request / _stream_request in flight ----
    requests         \* one record per call, all sharing the objects above

retryVars == <<config, rPc, attempt, last_response, last_exception, rOutcome,
               calls, sleeps>>

streamVars == <<sPc, respState, respOpens, respCloses, clientCloses, chunks,
                upFailure, frames, toConsumer, pending>>

transformVars == <<tConfig, transformations, tPc, tData, tResult, tStages, tHeld,
                   quotes_fields>>

headerVars == <<hConfig, hExact, hCompiled, hPc, hIncoming, hResult>>

requestVars == <<requests>>

vars == <<retryVars, streamVars, transformVars, headerVars, requestVars>>

----------------------------------------------------------------------------
(* Bounds of the model *)

MaxRetriesBound == 2

\* how many chunks the upstream sends at most in one streaming call
MaxChunks == 2

\* how many transformations a configuration lists at most
MaxRules == 2

\* how many drop rules a header policy lists at most
MaxDropRules == 1

\* how many headers process_headers is handed at most
MaxIncoming == 2

\* how many calls of the clients run concurrently
NumRequests == 2

----------------------------------------------------------------------------
(* Values *)

None == [kind |-> "None", cls |-> "", status_code |-> 0, id |-> 0]

Response(status, i) ==
    [kind |-> "Response", cls |-> "httpx.Response", status_code |-> status, id |-> i]

\* a value func() may return that is not an httpx.Response
OtherResult(i) == [kind |-> "Other", cls |-> "object", status_code |-> 0, id |-> i]

Exc(c, i) == [kind |-> "Exception", cls |-> c, status_code |-> 0, id |-> i]

\* status codes an upstream may answer with
StatusCodes == {200, 400, 404, 429, 503}

\* the exception classes func() may raise, and the classes each one derives from
ExcClasses == {"ConnectError", "ReadTimeout", "ReadError", "HTTPStatusError", "ValueError"}

Bases(c) ==
    CASE c = "ConnectError"        -> {"ConnectError", "NetworkError", "TransportError", "Exception"}
      [] c = "ReadError"           -> {"ReadError", "NetworkError", "TransportError", "Exception"}
      [] c = "ReadTimeout"         -> {"ReadTimeout", "TimeoutException", "TransportError", "Exception"}
      [] c = "ConnectTimeout"      -> {"ConnectTimeout", "TimeoutException", "TransportError", "Exception"}
      [] c = "HTTPStatusError"     -> {"HTTPStatusError", "HTTPError", "Exception"}
      [] c = "CancelledError"      -> {"CancelledError", "BaseException"}
      [] c = "GeneratorExit"       -> {"GeneratorExit", "BaseException"}
      [] OTHER                     -> {c, "Exception"}

isinstance(e, classes) == e.kind = "Exception" /\ Bases(e.cls) \cap classes # {}

\* RetryConfig (config.py): the policies the model draws from
RetryStatusSets == { {}, {429}, {429, 500, 502, 503, 504} }

\* delays are in tenths of a second, the backoff factor in tenths
DelaySettings ==
    { [backoff_factor |-> 20, initial_delay |-> 10, max_delay |-> 100],
      [backoff_factor |-> 15, initial_delay |-> 1,  max_delay |-> 10],
      [backoff_factor |-> 30, initial_delay |-> 50, max_delay |-> 100] }

RetryConfigs ==
    { [max_retries |-> m, retry_status_codes |-> s,
       backoff_factor |-> d.backoff_factor, initial_delay |-> d.initial_delay,
       max_delay |-> d.max_delay] :
         m \in 0..MaxRetriesBound, s \in RetryStatusSets, d \in DelaySettings }

----------------------------------------------------------------------------
(* RetryHandler *)

should_retry_status_mutant(response, exception) ==
    IF response # None
      THEN TRUE
      ELSE isinstance(exception, {"ConnectError", "TimeoutException", "NetworkError"})

should_retry_exception_mutant(response, exception) ==
    IF response # None
      THEN response.status_code \in config.retry_status_codes
      ELSE exception # None

\* RetryHandler.should_retry
should_retry(response, exception) ==
    IF response # None
      THEN response.status_code \in config.retry_status_codes
      ELSE IF isinstance(exception, {"ConnectError", "TimeoutException", "NetworkError"})
             THEN TRUE
             ELSE FALSE

RECURSIVE Pow(_, _)
Pow(b, e) == IF e = 0 THEN 1 ELSE b * Pow(b, e - 1)

\* a delay that grows without the cap of max_delay
calculate_delay_uncapped(a) ==
    [num |-> config.initial_delay * Pow(config.backoff_factor, a), den |-> Pow(10, a)]

\* RetryHandler.calculate_delay: min(initial_delay * backoff_factor ** attempt, max_delay)
\* as an exact fraction num/den of tenths of a second
calculate_delay(a) ==
    LET num == config.initial_delay * Pow(config.backoff_factor, a)
        den == Pow(10, a)
    IN  IF num <= config.max_delay * den
          THEN [num |-> num, den |-> den]
          ELSE [num |-> config.max_delay, den |-> 1]

\* the outcomes one invocation of func() can have; i numbers the invocation
FuncOutcomes(i) ==
    { Response(s, i) : s \in StatusCodes } \cup { OtherResult(i) }
      \cup { Exc(c, i) : c \in ExcClasses }

\* line 96 / 112: whether the loop goes on after a retryable outcome
attempts_remain_mutant == attempt <= config.max_retries

attempts_remain == attempt < config.max_retries

\* one iteration of the loop of execute_with_retry (lines 79-114): func() is
\* invoked and its outcome handled up to the return, the raise or the sleep
Attempt ==
    /\ rPc = "loop"
    /\ \E out \in FuncOutcomes(Len(calls)) :
        /\ calls' = Append(calls, out)
        /\ IF out.kind = "Response"
             THEN IF ~should_retry(out, None)
                    THEN \* line 86
                         /\ rPc' = "returned"
                         /\ rOutcome' = out
                         /\ UNCHANGED <<last_response, last_exception, sleeps, attempt>>
                    ELSE /\ last_response' = out
                         /\ IF attempts_remain
                              THEN /\ sleeps' = Append(sleeps, calculate_delay(attempt))
                                   /\ rPc' = "sleeping"
                                   /\ UNCHANGED <<rOutcome, last_exception, attempt>>
                              ELSE \* the loop ends; lines 117-122
                                   /\ rPc' = "exhausted"
                                   /\ UNCHANGED <<rOutcome, last_exception, sleeps, attempt>>
             ELSE IF out.kind = "Other"
                    THEN \* line 98
                         /\ rPc' = "returned"
                         /\ rOutcome' = out
                         /\ UNCHANGED <<last_response, last_exception, sleeps, attempt>>
                    ELSE \* except Exception as e (lines 100-114)
                         /\ last_exception' = out
                         /\ IF ~should_retry(None, out)
                              THEN /\ rPc' = "raised"
                                   /\ rOutcome' = out
                                   /\ UNCHANGED <<last_response, sleeps, attempt>>
                              ELSE IF attempts_remain
                                     THEN /\ sleeps' = Append(sleeps, calculate_delay(attempt))
                                          /\ rPc' = "sleeping"
                                          /\ UNCHANGED <<rOutcome, last_response, attempt>>
                                     ELSE /\ rPc' = "raised"
                                          /\ rOutcome' = out
                                          /\ UNCHANGED <<last_response, sleeps, attempt>>
    /\ UNCHANGED config
    /\ UNCHANGED <<streamVars, transformVars, headerVars, requestVars>>

\* asyncio.sleep(delay) returns and the for loop takes its next value
WakeUp ==
    /\ rPc = "sleeping"
    /\ IF attempt + 1 <= config.max_retries
         THEN /\ attempt' = attempt + 1
              /\ rPc' = "loop"
         ELSE /\ rPc' = "exhausted"
              /\ UNCHANGED attempt
    /\ UNCHANGED <<config, last_response, last_exception, rOutcome, calls, sleeps>>
    /\ UNCHANGED <<streamVars, transformVars, headerVars, requestVars>>

\* a variant of the code after the loop that treats exhaustion as an error
AfterLoop_raises ==
    /\ rPc = "exhausted"
    /\ rPc' = "raised"
    /\ rOutcome' = Exc("RuntimeError", 0)
    /\ UNCHANGED <<config, attempt, last_response, last_exception, calls, sleeps>>
    /\ UNCHANGED <<streamVars, transformVars, headerVars, requestVars>>

\* a variant of the code after the loop that looks at last_exception first
AfterLoop_exception_first ==
    /\ rPc = "exhausted"
    /\ IF last_exception # None
         THEN /\ rPc' = "raised"
              /\ rOutcome' = last_exception
         ELSE IF last_response # None
                THEN /\ rPc' = "returned"
                     /\ rOutcome' = last_response
                ELSE /\ rPc' = "raised"
                     /\ rOutcome' = Exc("RuntimeError", 0)
    /\ UNCHANGED <<config, attempt, last_response, last_exception, calls, sleeps>>
    /\ UNCHANGED <<streamVars, transformVars, headerVars, requestVars>>

\* lines 116-131, after the loop
AfterLoop ==
    /\ rPc = "exhausted"
    /\ IF last_response # None
         THEN /\ rPc' = "returned"
              /\ rOutcome' = last_response
         ELSE IF last_exception # None
                THEN /\ rPc' = "raised"
                     /\ rOutcome' = last_exception
                ELSE /\ rPc' = "raised"
                     /\ rOutcome' = Exc("RuntimeError", 0)
    /\ UNCHANGED <<config, attempt, last_response, last_exception, calls, sleeps>>
    /\ UNCHANGED <<streamVars, transformVars, headerVars, requestVars>>

RetryStart ==
    /\ config \in RetryConfigs
    /\ rPc = "loop"
    /\ attempt = 0
    /\ last_response = None
    /\ last_exception = None
    /\ rOutcome = None
    /\ calls = <<>>
    /\ sleeps = <<>>

RetryNext == Attempt \/ WakeUp \/ AfterLoop

----------------------------------------------------------------------------
(* The streaming relay *)

\* the chunks an upstream may send: bytes 65 ("A"), and 195 169 (the two
\* bytes of U+00E9); a chunk boundary may fall inside the two-byte sequence
Chunks == { <<>>, <<65>>, <<195, 169>>, <<195>>, <<169, 65>>, <<65, 195, 169>> }

\* bytes.decode("utf-8") (streaming.py:30): the characters of a well-formed
\* sequence of one- and two-byte encodings, or a UnicodeDecodeError
Char(cp) == IF cp = 65 THEN "A" ELSE IF cp = 233 THEN "e-acute" ELSE "other"

RECURSIVE decode(_)
decode(bs) ==
    IF bs = <<>> THEN [ok |-> TRUE, text |-> <<>>]
    ELSE IF bs[1] < 128
      THEN LET r == decode(Tail(bs))
           IN  [ok |-> r.ok, text |-> <<Char(bs[1])>> \o r.text]
    ELSE IF bs[1] >= 194 /\ bs[1] <= 223 /\ Len(bs) >= 2 /\ bs[2] >= 128 /\ bs[2] <= 191
      THEN LET r == decode(Tail(Tail(bs)))
           IN  [ok |-> r.ok, text |-> <<Char((bs[1] - 192) * 64 + (bs[2] - 128))>> \o r.text]
    ELSE [ok |-> FALSE, text |-> <<>>]

\* str(e) of the exceptions of the model
str(e) == e.cls

\* the frame of streaming.py:41-47, as the tokens of the text
\* data: {"error": {"message": "Streaming error: <e>", "type": "stream_error"}}\n\n
error_frame(e) ==
    << "data: ", "{", "error", ":", "{", "message", ":", "Streaming error: ", str(e), ",",
       "type", ":", "stream_error", "}", "}", "\n", "\n" >>

\* a bare except, which catches whatever is raised
except_everything(e) == TRUE

\* except Exception (streaming.py:38, base.py:204) catches e
except_Exception(e) == isinstance(e, {"Exception"})

\* what the upstream may answer when the connection is opened
ConnectStatuses == {200, 404, 503}

ConnectFailures == { Exc("ConnectError", 0), Exc("ReadTimeout", 0) }

ReadFailures == { Exc("ReadError", 0), Exc("ReadTimeout", 0) }

\* a relay that lets the failure through to its consumer
RaiseInChain_propagates(e) ==
    /\ clientCloses' = clientCloses + 1
    /\ toConsumer' = e
    /\ sPc' = "raised"
    /\ UNCHANGED frames

\* an exception e raised inside _stream_request travels up the chain:
\* base.py:204-207 logs and re-raises it, streaming.py:38-47 turns an
\* Exception into the error frame and lets anything else pass, and the
\* finally of generate (openai.py:103-104) closes the client on its way out
RaiseInChain(e) ==
    IF except_Exception(e)
      THEN /\ frames' = Append(frames, error_frame(e))
           /\ sPc' = "errYielded"
           /\ UNCHANGED <<clientCloses, toConsumer>>
      ELSE /\ clientCloses' = clientCloses + 1
           /\ toConsumer' = e
           /\ sPc' = "raised"
           /\ UNCHANGED frames

\* the consumer asks generate() for its next frame (__anext__)
RequestFrame ==
    /\ sPc \in {"created", "yielded", "errYielded"}
    /\ IF sPc = "created"
         THEN \* the three generators start; _stream_request reaches
              \* client.stream(...) (base.py:193)
              /\ sPc' = "connecting"
              /\ UNCHANGED clientCloses
         ELSE IF sPc = "yielded"
           THEN \* all three resume after their yield; base.py:201 reads on
                /\ sPc' = "reading"
                /\ UNCHANGED clientCloses
           ELSE \* stream_response ends after line 47; generate's loop ends
                \* and its finally runs
                /\ sPc' = "done"
                /\ clientCloses' = clientCloses + 1
    /\ UNCHANGED <<respState, respOpens, respCloses, chunks, upFailure, frames,
                   toConsumer, pending>>
    /\ UNCHANGED <<retryVars, transformVars, headerVars, requestVars>>

\* a client that opens the connection again when the status it was answered
\* with is one the retry policy names
ConnectAnswered_retries_status ==
    /\ sPc = "connecting"
    /\ \E status \in ConnectStatuses :
         /\ respOpens' = respOpens + 1
         /\ IF status >= 400
              THEN /\ respState' = "closed"
                   /\ respCloses' = respCloses + 1
                   /\ upFailure' = Exc("HTTPStatusError", status)
                   /\ IF status \in config.retry_status_codes
                         /\ respOpens < config.max_retries
                        THEN UNCHANGED <<sPc, frames, clientCloses, toConsumer>>
                        ELSE RaiseInChain(Exc("HTTPStatusError", status))
              ELSE /\ respState' = "open"
                   /\ sPc' = "reading"
                   /\ UNCHANGED <<respCloses, upFailure, frames, clientCloses, toConsumer>>
    /\ UNCHANGED <<chunks, pending>>
    /\ UNCHANGED <<retryVars, transformVars, headerVars, requestVars>>

\* client.stream(...) answers with a status: the response is open, and
\* raise_for_status (base.py:199) raises for an error status
ConnectAnswered ==
    /\ sPc = "connecting"
    /\ \E status \in ConnectStatuses :
         /\ respOpens' = respOpens + 1
         /\ IF status >= 400
              THEN \* HTTPStatusError leaves the async with
                   /\ respState' = "closed"
                   /\ respCloses' = respCloses + 1
                   /\ upFailure' = Exc("HTTPStatusError", status)
                   /\ RaiseInChain(Exc("HTTPStatusError", status))
              ELSE /\ respState' = "open"
                   /\ sPc' = "reading"
                   /\ UNCHANGED <<respCloses, upFailure, frames, clientCloses, toConsumer>>
    /\ UNCHANGED <<chunks, pending>>
    /\ UNCHANGED <<retryVars, transformVars, headerVars, requestVars>>

\* client.stream(...) fails to connect: no response was opened
ConnectFailed ==
    /\ sPc = "connecting"
    /\ \E e \in ConnectFailures :
         /\ upFailure' = e
         /\ RaiseInChain(e)
    /\ UNCHANGED <<respState, respOpens, respCloses, chunks, pending>>
    /\ UNCHANGED <<retryVars, transformVars, headerVars, requestVars>>

\* a relay that forwards every chunk, whatever it holds
UpstreamChunk_forwards_all ==
    /\ sPc = "reading"
    /\ Len(chunks) < MaxChunks
    /\ \E chunk \in Chunks :
         /\ chunks' = Append(chunks, chunk)
         /\ frames' = Append(frames, decode(chunk).text)
         /\ sPc' = "yielded"
    /\ UNCHANGED <<respState, respOpens, respCloses, clientCloses, upFailure,
                   toConsumer, pending>>
    /\ UNCHANGED <<retryVars, transformVars, headerVars, requestVars>>

\* response.aiter_bytes() produces a chunk: _stream_request yields it
\* (base.py:202) and stream_response skips it (streaming.py:26, 31-33) or
\* yields its text (streaming.py:36), which generate yields in turn
UpstreamChunk ==
    /\ sPc = "reading"
    /\ Len(chunks) < MaxChunks
    /\ \E chunk \in Chunks :
         /\ chunks' = Append(chunks, chunk)
         /\ IF chunk = <<>>
              THEN UNCHANGED <<sPc, frames>>
              ELSE IF ~decode(chunk).ok
                THEN UNCHANGED <<sPc, frames>>
                ELSE /\ frames' = Append(frames, decode(chunk).text)
                     /\ sPc' = "yielded"
    /\ UNCHANGED <<respState, respOpens, respCloses, clientCloses, upFailure,
                   toConsumer, pending>>
    /\ UNCHANGED <<retryVars, transformVars, headerVars, requestVars>>

\* response.aiter_bytes() is exhausted: the async with is left, all three
\* generators end and the finally of generate closes the client
UpstreamEnd ==
    /\ sPc = "reading"
    /\ respState' = "closed"
    /\ respCloses' = respCloses + 1
    /\ clientCloses' = clientCloses + 1
    /\ sPc' = "done"
    /\ UNCHANGED <<respOpens, chunks, upFailure, frames, toConsumer, pending>>
    /\ UNCHANGED <<retryVars, transformVars, headerVars, requestVars>>

\* a client that opens the upstream request again when reading fails
UpstreamFail_reconnects ==
    /\ sPc = "reading"
    /\ \E e \in ReadFailures :
         /\ upFailure' = e
         /\ sPc' = "connecting"
    /\ respState' = "closed"
    /\ respCloses' = respCloses + 1
    /\ UNCHANGED <<respOpens, chunks, pending, frames, clientCloses, toConsumer>>
    /\ UNCHANGED <<retryVars, transformVars, headerVars, requestVars>>

\* reading the next chunk raises: the async with is left with the exception
UpstreamFail ==
    /\ sPc = "reading"
    /\ \E e \in ReadFailures :
         /\ upFailure' = e
         /\ RaiseInChain(e)
    /\ respState' = "closed"
    /\ respCloses' = respCloses + 1
    /\ UNCHANGED <<respOpens, chunks, pending>>
    /\ UNCHANGED <<retryVars, transformVars, headerVars, requestVars>>

\* the task awaiting the next frame is cancelled while the chain waits for
\* the network: CancelledError is raised at the await inside _stream_request
CancelWhileWaiting ==
    /\ sPc \in {"connecting", "reading"}
    /\ IF respState = "open"
         THEN /\ respState' = "closed"
              /\ respCloses' = respCloses + 1
         ELSE UNCHANGED <<respState, respCloses>>
    /\ RaiseInChain(Exc("CancelledError", 0))
    /\ UNCHANGED <<respOpens, chunks, upFailure, pending>>
    /\ UNCHANGED <<retryVars, transformVars, headerVars, requestVars>>

\* the consumer stops iterating and drops generate(): the event loop's
\* asynchronous-generator hook will aclose every generator that has started,
\* outermost first; aclose of a generator that never started runs no code
Abandon ==
    /\ sPc \in {"created", "yielded", "errYielded"}
    /\ pending' = IF sPc = "created" THEN <<>>
                  ELSE IF sPc = "yielded"
                    THEN <<"generate", "stream_response", "_stream_request">>
                    ELSE <<"generate", "stream_response">>
    /\ sPc' = "abandoned"
    /\ UNCHANGED <<respState, respOpens, respCloses, clientCloses, chunks, upFailure,
                   frames, toConsumer>>
    /\ UNCHANGED <<retryVars, transformVars, headerVars, requestVars>>

\* the event loop finalizes one abandoned generator: GeneratorExit is raised
\* at the yield it is suspended at
Finalize ==
    /\ sPc = "abandoned"
    /\ pending # <<>>
    /\ pending' = Tail(pending)
    /\ IF Head(pending) = "generate"
         THEN \* openai.py:103-104: finally: await client.close()
              /\ clientCloses' = clientCloses + 1
              /\ UNCHANGED <<respState, respCloses, frames>>
         ELSE IF Head(pending) = "stream_response"
           THEN \* streaming.py:38: GeneratorExit is no Exception
                /\ IF except_Exception(Exc("GeneratorExit", 0))
                     THEN frames' = Append(frames, error_frame(Exc("GeneratorExit", 0)))
                     ELSE UNCHANGED frames
                /\ UNCHANGED <<respState, respCloses, clientCloses>>
           ELSE \* base.py:193-202: the async with is left
                /\ IF respState = "open"
                     THEN /\ respState' = "closed"
                          /\ respCloses' = respCloses + 1
                     ELSE UNCHANGED <<respState, respCloses>>
                /\ UNCHANGED <<clientCloses, frames>>
    /\ UNCHANGED <<sPc, respOpens, chunks, upFailure, toConsumer>>
    /\ UNCHANGED <<retryVars, transformVars, headerVars, requestVars>>

\* chat_completions has built the client and generate() (openai.py:89-106)
StreamStart ==
    /\ sPc = "created"
    /\ respState = "none"
    /\ respOpens = 0
    /\ respCloses = 0
    /\ clientCloses = 0
    /\ chunks = <<>>
    /\ upFailure = None
    /\ frames = <<>>
    /\ toConsumer = None
    /\ pending = <<>>

StreamNext ==
    \/ RequestFrame
    \/ ConnectAnswered
    \/ ConnectFailed
    \/ UpstreamChunk
    \/ UpstreamEnd
    \/ UpstreamFail
    \/ CancelWhileWaiting
    \/ Abandon
    \/ Finalize

----------------------------------------------------------------------------
(* JSON values, json.dumps and json.loads *)

JNum(n) == [t |-> "num", v |-> n]
JStr(s) == [t |-> "str", v |-> s]
JObj(f) == [t |-> "obj", v |-> f]
JList(q) == [t |-> "list", v |-> q]
EmptyObj == JObj(<<>>)

\* Python's None where a JSON value is expected (TransformationConfig.value)
NoValue == [t |-> "none", v |-> 0]

\* JSON text is a sequence of tokens: punctuation, string literals, numbers
Tok(k, s) == [k |-> k, s |-> s]
P(s) == Tok("p", s)

\* the keys of the model, in the order json.dumps writes them
KeyOrder == <<"model", "a", "b", "c", "items", "v", "x", "a.b.c">>

RECURSIVE json_dumps(_), dumps_members(_, _, _), dumps_elements(_, _)
json_dumps(val) ==
    CASE val.t = "num"  -> <<Tok("num", ToString(val.v))>>
      [] val.t = "str"  -> <<Tok("str", val.v)>>
      [] val.t = "obj"  -> <<P("{")>> \o dumps_members(val.v, 1, TRUE) \o <<P("}")>>
      [] val.t = "list" -> <<P("[")>> \o dumps_elements(val.v, 1) \o <<P("]")>>

dumps_members(f, i, first) ==
    IF i > Len(KeyOrder) THEN <<>>
    ELSE IF KeyOrder[i] \in DOMAIN f
      THEN (IF first THEN <<>> ELSE <<P(",")>>)
             \o <<Tok("str", KeyOrder[i]), P(":")>> \o json_dumps(f[KeyOrder[i]])
             \o dumps_members(f, i + 1, FALSE)
      ELSE dumps_members(f, i + 1, first)

dumps_elements(q, i) ==
    IF i > Len(q) THEN <<>>
    ELSE (IF i = 1 THEN <<>> ELSE <<P(",")>>) \o json_dumps(q[i]) \o dumps_elements(q, i + 1)

\* the value of an expression, computed once and handed to F
Once(v, F(_)) == CHOOSE y \in { F(x) : x \in {v} } : TRUE

ParseFail == [ok |-> FALSE, val |-> NoValue, rest |-> <<>>]

ParseInt(s) == CHOOSE n \in 0..9 : ToString(n) = s

RECURSIVE parse_value(_), parse_members(_, _), parse_elements(_, _)
parse_value(toks) ==
    IF toks = <<>> THEN ParseFail
    ELSE LET h == Head(toks) IN
      IF h.k = "num" THEN [ok |-> TRUE, val |-> JNum(ParseInt(h.s)), rest |-> Tail(toks)]
      ELSE IF h.k = "str" THEN [ok |-> TRUE, val |-> JStr(h.s), rest |-> Tail(toks)]
      ELSE IF h = P("{")
        THEN IF Len(toks) >= 2 /\ toks[2] = P("}")
               THEN [ok |-> TRUE, val |-> EmptyObj, rest |-> SubSeq(toks, 3, Len(toks))]
               ELSE parse_members(Tail(toks), <<>>)
      ELSE IF h = P("[")
        THEN IF Len(toks) >= 2 /\ toks[2] = P("]")
               THEN [ok |-> TRUE, val |-> JList(<<>>), rest |-> SubSeq(toks, 3, Len(toks))]
               ELSE parse_elements(Tail(toks), <<>>)
      ELSE ParseFail

parse_members(toks, acc) ==
    IF Len(toks) < 3 \/ toks[1].k # "str" \/ toks[2] # P(":") THEN ParseFail
    ELSE Once(parse_value(SubSeq(toks, 3, Len(toks))), LAMBDA r :
      IF ~r.ok \/ r.rest = <<>> THEN ParseFail
      ELSE LET acc2 == (toks[1].s :> r.val) @@ acc IN
        IF Head(r.rest) = P("}")
          THEN [ok |-> TRUE, val |-> JObj(acc2), rest |-> Tail(r.rest)]
        ELSE IF Head(r.rest) = P(",") THEN parse_members(Tail(r.rest), acc2)
        ELSE ParseFail)

parse_elements(toks, acc) ==
    Once(parse_value(toks), LAMBDA r :
      IF ~r.ok \/ r.rest = <<>> THEN ParseFail
      ELSE IF Head(r.rest) = P("]")
        THEN [ok |-> TRUE, val |-> JList(Append(acc, r.val)), rest |-> Tail(r.rest)]
      ELSE IF Head(r.rest) = P(",") THEN parse_elements(Tail(r.rest), Append(acc, r.val))
      ELSE ParseFail)

\* json.loads: [ok |-> FALSE] stands for json.JSONDecodeError
json_loads(toks) ==
    Once(parse_value(toks), LAMBDA r :
      IF r.ok /\ r.rest = <<>> THEN [ok |-> TRUE, val |-> r.val]
                               ELSE [ok |-> FALSE, val |-> NoValue])

----------------------------------------------------------------------------
(* re.compile and Pattern.sub, on JSON text *)

\* a regular-expression token: "(" and "[" open a group or set that is never
\* closed, "^.*$" matches the whole text, "ref9" is a reference to group 9
Re(s) == Tok("re", s)

\* re.compile: [ok |-> FALSE] stands for re.error
re_compile(pattern) ==
    IF \E i \in 1..Len(pattern) : pattern[i] \in {Re("("), Re("[")}
      THEN [ok |-> FALSE, toks |-> <<>>]
      ELSE [ok |-> TRUE, toks |-> pattern]

\* no _compiled_pattern attribute
NotCompiled == [ok |-> FALSE, toks |-> <<>>]

RECURSIVE literal_sub(_, _, _)
literal_sub(p, repl, text) ==
    IF Len(text) < Len(p) THEN text
    ELSE IF SubSeq(text, 1, Len(p)) = p
      THEN repl \o literal_sub(p, repl, SubSeq(text, Len(p) + 1, Len(text)))
      ELSE <<Head(text)>> \o literal_sub(p, repl, Tail(text))

\* Pattern.sub(repl, text): [ok |-> FALSE] stands for re.error (a template
\* that refers to a group the pattern does not have)
re_sub(compiled, repl, text) ==
    IF \E i \in 1..Len(repl) : repl[i] = Re("ref9")
      THEN [ok |-> FALSE, text |-> <<>>]
    ELSE IF compiled.toks = <<Re("^.*$")>>
      THEN [ok |-> TRUE, text |-> repl]
      ELSE [ok |-> TRUE, text |-> literal_sub(compiled.toks, repl, text)]

----------------------------------------------------------------------------
(* jsonpath_ng: parse and find *)

IndexTok(i) == "[" \o ToString(i) \o "]"

IsIndexTok(s) == \E i \in 0..9 : s = IndexTok(i)

IndexOf(s) == CHOOSE i \in 0..9 : s = IndexTok(i)

IsName(s) == \E i \in 1..Len(KeyOrder) : KeyOrder[i] = s

Seg(k, name, i) == [k |-> k, name |-> name, i |-> i]

RECURSIVE parse_steps(_)
parse_steps(toks) ==
    IF toks = <<>> THEN [ok |-> TRUE, segs |-> <<>>]
    ELSE IF Head(toks) = "." /\ Len(toks) >= 2 /\ (IsName(toks[2]) \/ toks[2] = "*")
      THEN LET r == parse_steps(SubSeq(toks, 3, Len(toks)))
               s == IF toks[2] = "*" THEN Seg("wild_field", "", 0)
                                     ELSE Seg("field", toks[2], 0)
           IN  [ok |-> r.ok, segs |-> <<s>> \o r.segs]
    ELSE IF Head(toks) = ".." /\ Len(toks) >= 2 /\ (IsName(toks[2]) \/ toks[2] = "*")
      THEN LET r == parse_steps(SubSeq(toks, 3, Len(toks)))
               s == IF toks[2] = "*" THEN Seg("desc_wild", "", 0)
                                     ELSE Seg("desc_field", toks[2], 0)
           IN  [ok |-> r.ok, segs |-> <<s>> \o r.segs]
    ELSE IF IsIndexTok(Head(toks)) \/ Head(toks) = "[*]"
      THEN LET r == parse_steps(Tail(toks))
               s == IF Head(toks) = "[*]" THEN Seg("wild_index", "", 0)
                                          ELSE Seg("index", "", IndexOf(Head(toks)))
           IN  [ok |-> r.ok, segs |-> <<s>> \o r.segs]
    ELSE [ok |-> FALSE, segs |-> <<>>]

\* jsonpath_parse(path): [ok |-> FALSE] stands for the parser's exception
jsonpath_parse(path) ==
    IF Head(path) = "$" THEN parse_steps(Tail(path))
                        ELSE parse_steps(<<".">> \o path)

\* str(Fields(name)): the tokens of a field name in str(match.full_path); a
\* name with dots in it is written as it is, or between quotes
field_text(name) ==
    IF name = "a.b.c"
      THEN IF quotes_fields THEN <<"'a", ".", "b", ".", "c'">>
                            ELSE <<"a", ".", "b", ".", "c">>
      ELSE <<name>>

\* find: the full paths of the matches, in document order; a full path is
\* the sequence of the tokens of str(match.full_path)
RECURSIVE find(_, _, _), find_fields(_, _, _, _), find_elements(_, _, _, _)
RECURSIVE find_below_fields(_, _, _, _), find_below_elements(_, _, _, _)
find(val, segs, prefix) ==
    IF segs = <<>> THEN << IF prefix = <<>> THEN <<"$">> ELSE prefix >>
    ELSE LET s == Head(segs)
             dot == IF prefix = <<>> THEN <<>> ELSE <<".">>
         IN
      CASE s.k = "field" ->
             IF val.t = "obj" /\ s.name \in DOMAIN val.v
               THEN find(val.v[s.name], Tail(segs), prefix \o dot \o field_text(s.name))
               ELSE <<>>
        [] s.k = "index" ->
             IF val.t = "list" /\ s.i < Len(val.v)
               THEN find(val.v[s.i + 1], Tail(segs), prefix \o dot \o <<IndexTok(s.i)>>)
               ELSE <<>>
        [] s.k = "wild_field" ->
             IF val.t = "obj" THEN find_fields(val, Tail(segs), prefix, 1) ELSE <<>>
        [] s.k = "wild_index" ->
             IF val.t = "list" THEN find_elements(val, Tail(segs), prefix, 1) ELSE <<>>
        [] s.k \in {"desc_field", "desc_wild"} ->
             \* Descendants.find: the matches of the right step here, then
             \* those below every field or element, in document order
             find(val, <<IF s.k = "desc_wild" THEN Seg("wild_field", "", 0)
                                              ELSE Seg("field", s.name, 0)>> \o Tail(segs), prefix)
               \o (IF val.t = "obj" THEN find_below_fields(val, segs, prefix, 1)
                   ELSE IF val.t = "list" THEN find_below_elements(val, segs, prefix, 1)
                   ELSE <<>>)

find_below_fields(val, segs, prefix, i) ==
    IF i > Len(KeyOrder) THEN <<>>
    ELSE (IF KeyOrder[i] \in DOMAIN val.v
            THEN find(val.v[KeyOrder[i]], segs,
                      prefix \o (IF prefix = <<>> THEN <<>> ELSE <<".">>)
                             \o field_text(KeyOrder[i]))
            ELSE <<>>)
         \o find_below_fields(val, segs, prefix, i + 1)

find_below_elements(val, segs, prefix, i) ==
    IF i > Len(val.v) THEN <<>>
    ELSE find(val.v[i], segs,
              prefix \o (IF prefix = <<>> THEN <<>> ELSE <<".">>) \o <<IndexTok(i - 1)>>)
         \o find_below_elements(val, segs, prefix, i + 1)

find_fields(val, segs, prefix, i) ==
    IF i > Len(KeyOrder) THEN <<>>
    ELSE (IF KeyOrder[i] \in DOMAIN val.v
            THEN find(val.v[KeyOrder[i]], segs,
                      prefix \o (IF prefix = <<>> THEN <<>> ELSE <<".">>)
                             \o field_text(KeyOrder[i]))
            ELSE <<>>)
         \o find_fields(val, segs, prefix, i + 1)

find_elements(val, segs, prefix, i) ==
    IF i > Len(val.v) THEN <<>>
    ELSE find(val.v[i], segs,
              prefix \o (IF prefix = <<>> THEN <<>> ELSE <<".">>) \o <<IndexTok(i - 1)>>)
         \o find_elements(val, segs, prefix, i + 1)

\* len(str(match.full_path))
RECURSIVE path_len(_)
path_len(fp) == IF fp = <<>> THEN 0 ELSE Len(Head(fp)) + path_len(Tail(fp))

\* str.split("."): the text between the dots
RECURSIVE split_from(_, _)
split_from(toks, cur) ==
    IF toks = <<>> THEN <<cur>>
    ELSE IF Head(toks) = "." THEN <<cur>> \o split_from(Tail(toks), "")
    ELSE split_from(Tail(toks), cur \o Head(toks))

split(toks) == split_from(toks, "")

\* sorted(matches, key=lambda m: len(str(m.full_path)), reverse=True): stable
RECURSIVE insert_sorted(_, _), sorted_longest_first(_)

\* the matches in the order find returned them
matches_unsorted(ms) == ms

insert_sorted(m, ms) ==
    IF ms = <<>> THEN <<m>>
    ELSE IF path_len(Head(ms)) >= path_len(m)
      THEN <<Head(ms)>> \o insert_sorted(m, Tail(ms))
      ELSE <<m>> \o ms

sorted_longest_first(ms) ==
    IF ms = <<>> THEN <<>>
    ELSE LET n == Len(ms) IN insert_sorted(ms[n], sorted_longest_first(SubSeq(ms, 1, n - 1)))

----------------------------------------------------------------------------
(* ContentTransformer *)

\* what a stage hands back: a value it returns (err: after logging an error
\* it returned its input), or an exception it raises
StageReturn(val) == [out |-> "return", val |-> val, err |-> FALSE, exc |-> None]
StageError(data) == [out |-> "return", val |-> data, err |-> TRUE, exc |-> None]
StageRaise(data, e) == [out |-> "raise", val |-> data, err |-> TRUE, exc |-> e]

\* ContentTransformer._apply_regex_replace
apply_regex_replace(data, cfg) ==
    IF ~cfg.compiled.ok
      THEN StageReturn(data)
      ELSE Once(json_dumps(data), LAMBDA json_str :
           Once(re_sub(cfg.compiled, cfg.replacement, json_str), LAMBDA transformed_str :
             IF ~transformed_str.ok
               THEN StageRaise(data, Exc("re.error", 0))
               ELSE Once(json_loads(transformed_str.text), LAMBDA loaded :
                      IF loaded.ok THEN StageReturn(loaded.val)
                                   ELSE StageError(data))))

RemoveKey(f, key) == [k \in (DOMAIN f) \ {key} |-> f[k]]

Pop(q, idx) == SubSeq(q, 1, idx) \o SubSeq(q, idx + 2, Len(q))

DelOk(val) == [ok |-> TRUE, val |-> val]
DelFail == [ok |-> FALSE, val |-> NoValue]

\* transform.py:135-138: a match at the top level
delete_top(result, part) ==
    IF result.t = "obj"
      THEN IF part \in DOMAIN result.v THEN DelOk(JObj(RemoveKey(result.v, part)))
                                       ELSE DelOk(result)
    ELSE IF result.t = "list" THEN DelOk(result)
    ELSE DelFail

\* transform.py:141-158: navigate path_parts[:-1] from parent, then delete
\* path_parts[-1] from the container reached
RECURSIVE delete_nested(_, _)
delete_nested(parent, parts) ==
    IF Len(parts) = 1
      THEN LET last_part == parts[1] IN
           IF parent.t = "obj"
             THEN IF last_part \in DOMAIN parent.v
                    THEN DelOk(JObj(RemoveKey(parent.v, last_part)))
                    ELSE DelOk(parent)
           ELSE IF parent.t = "list"
             THEN IF IsIndexTok(last_part) /\ IndexOf(last_part) < Len(parent.v)
                    THEN DelOk(JList(Pop(parent.v, IndexOf(last_part))))
                    ELSE DelOk(parent)
           ELSE DelOk(parent)
      ELSE LET part == parts[1] IN
           IF IsIndexTok(part)
             THEN IF parent.t = "list" /\ IndexOf(part) < Len(parent.v)
                    THEN LET r == delete_nested(parent.v[IndexOf(part) + 1], Tail(parts))
                         IN  IF r.ok
                               THEN DelOk(JList([parent.v EXCEPT ![IndexOf(part) + 1] = r.val]))
                               ELSE DelFail
                    ELSE DelFail
           ELSE IF parent.t = "obj"
             THEN IF part \in DOMAIN parent.v
                    THEN LET r == delete_nested(parent.v[part], Tail(parts))
                         IN  IF r.ok THEN DelOk(JObj([parent.v EXCEPT ![part] = r.val]))
                                     ELSE DelFail
                    ELSE \* parent.get(part, {}) is a fresh dict
                         LET r == delete_nested(EmptyObj, Tail(parts))
                         IN  IF r.ok THEN DelOk(parent) ELSE DelFail
           ELSE DelFail

\* the loop of transform.py:131-158 over the sorted matches
RECURSIVE delete_matches(_, _)
delete_matches(result, matches) ==
    IF matches = <<>> THEN DelOk(result)
    ELSE Once(split(Head(matches)), LAMBDA path_parts :
         Once(IF Len(path_parts) = 1 THEN delete_top(result, path_parts[1])
                                     ELSE delete_nested(result, path_parts), LAMBDA r :
           IF r.ok THEN delete_matches(r.val, Tail(matches)) ELSE DelFail))

\* result as the loop of transform.py:131-158 leaves it: after all the
\* deletions, or after those made before one raised
RECURSIVE deleted_so_far(_, _)
deleted_so_far(result, matches) ==
    IF matches = <<>> THEN result
    ELSE Once(split(Head(matches)), LAMBDA path_parts :
         Once(IF Len(path_parts) = 1 THEN delete_top(result, path_parts[1])
                                     ELSE delete_nested(result, path_parts), LAMBDA r :
           IF r.ok THEN deleted_so_far(r.val, Tail(matches)) ELSE result))

\* a drop whose except clause returns result, the copy it was deleting from
apply_jsonpath_drop_returns_result(data, cfg) ==
    IF cfg.path = <<>> THEN StageReturn(data)
    ELSE Once(jsonpath_parse(cfg.path), LAMBDA jsonpath_expr :
      IF ~jsonpath_expr.ok THEN StageError(data)
      ELSE Once(find(data, jsonpath_expr.segs, <<>>), LAMBDA matches :
        IF matches = <<>> THEN StageReturn(data)
        ELSE Once(json_loads(json_dumps(data)).val, LAMBDA result :
             Once(delete_matches(result, sorted_longest_first(matches)), LAMBDA r :
               IF r.ok THEN StageReturn(r.val)
                       ELSE StageError(deleted_so_far(result,
                                                      sorted_longest_first(matches)))))))

\* ContentTransformer._apply_jsonpath_drop
apply_jsonpath_drop(data, cfg) ==
    IF cfg.path = <<>> THEN StageReturn(data)
    ELSE Once(jsonpath_parse(cfg.path), LAMBDA jsonpath_expr :
      IF ~jsonpath_expr.ok THEN StageError(data)
      ELSE Once(find(data, jsonpath_expr.segs, <<>>), LAMBDA matches :
        IF matches = <<>> THEN StageReturn(data)
        ELSE Once(json_loads(json_dumps(data)).val, LAMBDA result :
             Once(delete_matches(result, sorted_longest_first(matches)), LAMBDA r :
               IF r.ok THEN StageReturn(r.val) ELSE StageError(data)))))

\* config.path.replace("$.", "")
RECURSIVE replace_root(_)
replace_root(toks) ==
    IF toks = <<>> THEN <<>>
    ELSE IF Len(toks) >= 2 /\ toks[1] = "$" /\ toks[2] = "."
      THEN replace_root(SubSeq(toks, 3, Len(toks)))
      ELSE <<Head(toks)>> \o replace_root(Tail(toks))

\* transform.py:190-199: walk path_parts from current, creating the missing
\* intermediate objects, and set the value at the last part
RECURSIVE add_at(_, _, _)
add_at(current, parts, value) ==
    IF current.t # "obj" THEN DelFail
    ELSE IF Len(parts) = 1
      THEN DelOk(JObj((parts[1] :> value) @@ current.v))
      ELSE LET part == parts[1]
               child == IF part \in DOMAIN current.v THEN current.v[part] ELSE EmptyObj
               r == add_at(child, Tail(parts), value)
           IN  IF r.ok THEN DelOk(JObj((part :> r.val) @@ current.v)) ELSE DelFail

\* ContentTransformer._apply_jsonpath_add
apply_jsonpath_add(data, cfg) ==
    IF cfg.path = <<>> \/ cfg.value = NoValue THEN StageReturn(data)
    ELSE Once(json_loads(json_dumps(data)).val, LAMBDA result :
         Once(split(replace_root(cfg.path)), LAMBDA path_parts :
         Once(add_at(result, path_parts, cfg.value), LAMBDA r :
           IF r.ok THEN StageReturn(r.val) ELSE StageError(data))))

\* the body of the try of transform.py:57-65
apply_transformation(result, transformation) ==
    CASE transformation.type = "regex_replace" -> apply_regex_replace(result, transformation)
      [] transformation.type = "jsonpath_drop" -> apply_jsonpath_drop(result, transformation)
      [] transformation.type = "jsonpath_add"  -> apply_jsonpath_add(result, transformation)
      [] OTHER -> StageReturn(result)

\* a pipeline without the except clause of transform.py:66
transform_catches_nothing(e) == FALSE

\* transform.py:66: except Exception
transform_catches(e) == except_Exception(e)

\* the loop of transform_request (transform.py:56-70): one record per stage
\* that ran; the loop stops at an exception the except clause does not catch
RECURSIVE run_stages(_, _)
run_stages(result, trs) ==
    IF trs = <<>> THEN <<>>
    ELSE Once(apply_transformation(result, Head(trs)), LAMBDA s :
         LET propagated == s.out = "raise" /\ ~transform_catches(s.exc)
             post == IF s.out = "raise" THEN result ELSE s.val
             rec == [rule |-> Head(trs), pre |-> result, post |-> post,
                     out |-> s.out, err |-> s.err, propagated |-> propagated]
         IN  IF propagated THEN <<rec>> ELSE <<rec>> \o run_stages(post, Tail(trs)))

IsPrefix(p, q) == Len(p) <= Len(q) /\ SubSeq(q, 1, Len(p)) = p

\* the value found by walking the keys of parts from val
RECURSIVE value_at(_, _)
value_at(val, parts) ==
    IF parts = <<>> THEN val
    ELSE IF val.t = "obj" /\ Head(parts) \in DOMAIN val.v
      THEN value_at(val.v[Head(parts)], Tail(parts))
      ELSE NoValue

\* a stage that writes into the object it was handed
aliases_without_copy(aliases) == aliases

\* result = json.loads(json.dumps(data)) (transform.py:126, 184): every object
\* of result is new, none of them is the value object of a rule
aliases_after_copy(aliases) == {}

\* the matches _apply_jsonpath_drop found for a stage, as lists of path parts
drop_targets(stage) ==
    IF stage.rule.type = "jsonpath_drop" /\ stage.rule.path # <<>>
      THEN Once(jsonpath_parse(stage.rule.path), LAMBDA jsonpath_expr :
             IF jsonpath_expr.ok
               THEN Once(find(stage.pre, jsonpath_expr.segs, <<>>), LAMBDA matches :
                      { split(matches[i]) : i \in 1..Len(matches) })
               ELSE {})
      ELSE {}

\* the stage reached its writes (del / pop at transform.py:138-158, the
\* assignments at transform.py:196-199) and returned result
stage_writes(stage) ==
    /\ stage.out = "return"
    /\ ~stage.err
    /\ \/ /\ stage.rule.type = "jsonpath_add"
          /\ stage.rule.path # <<>>
          /\ stage.rule.value # NoValue
       \/ /\ stage.rule.type = "jsonpath_drop"
          /\ drop_targets(stage) # {}

\* the stage returned json.loads(transformed_str) (transform.py:97)
stage_reparses(stage) ==
    /\ stage.rule.type = "regex_replace"
    /\ stage.rule.pattern # <<>>
    /\ stage.out = "return"
    /\ ~stage.err

\* the objects a writing stage assigned into or deleted from, each named by
\* the path that leads to it in result
written_parents(stage) ==
    IF stage.rule.type = "jsonpath_add"
      THEN LET path_parts == split(replace_root(stage.rule.path))
           IN  { SubSeq(path_parts, 1, Len(path_parts) - 1) }
      ELSE { SubSeq(m, 1, Len(m) - 1) : m \in drop_targets(stage) }

\* the places of result a writing stage replaced or removed
overwritten(stage) ==
    IF stage.rule.type = "jsonpath_add"
      THEN { split(replace_root(stage.rule.path)) }
      ELSE drop_targets(stage)

\* which objects of the body are the value object of a rule: stage k of
\* transform_request (transform.py:56-70) turns the aliases of the object it
\* was handed into those of the object it returns, and writes through to a
\* rule's value where it writes into an object that is one
RECURSIVE share_stages(_, _, _, _)
share_stages(stages, k, aliases, trs) ==
    IF k > Len(stages) THEN [aliases |-> aliases, transformations |-> trs]
    ELSE LET stage == stages[k] IN
      IF stage_reparses(stage) THEN share_stages(stages, k + 1, {}, trs)
      ELSE IF ~stage_writes(stage) THEN share_stages(stages, k + 1, aliases, trs)
      ELSE
        LET result == aliases_after_copy(aliases)
            reached(j) == { al \in result :
                              /\ al.rule = j
                              /\ \E w \in written_parents(stage) : IsPrefix(al.at, w) }
            written == [j \in DOMAIN trs |->
                          IF reached(j) = {} THEN trs[j]
                          ELSE LET al == CHOOSE al \in reached(j) : TRUE
                               IN  [trs[j] EXCEPT !.value = value_at(stage.post, al.at)]]
            kept == { al \in result : \A o \in overwritten(stage) : ~IsPrefix(o, al.at) }
            \* transform.py:199: current[final] = config.value
            inserted == IF stage.rule.type = "jsonpath_add"
                          THEN { [at |-> split(replace_root(stage.rule.path)), rule |-> k] }
                          ELSE {}
        IN  share_stages(stages, k + 1, kept \cup inserted, written)

\* the lists and objects below the top level of a body, each named by the
\* path that leads to it: result = data.copy() (transform.py:54) is a new
\* dict that holds these very objects
RECURSIVE containers_below(_, _)
containers_below(val, path) ==
    LET below(child, p) ==
            (IF child.t \in {"obj", "list"} THEN {p} ELSE {}) \cup containers_below(child, p)
    IN  IF val.t = "obj"
          THEN UNION { below(val.v[k], Append(path, k)) : k \in DOMAIN val.v }
        ELSE IF val.t = "list"
          THEN UNION { below(val.v[i], Append(path, IndexTok(i - 1))) : i \in 1..Len(val.v) }
          ELSE {}

\* the caller's body after writes into the objects at the paths touched: it
\* holds there what the written body holds
RECURSIVE seen_by_caller(_, _, _, _)
seen_by_caller(val, path, touched, written) ==
    IF path \in touched THEN value_at(written, path)
    ELSE IF val.t = "obj"
      THEN JObj([k \in DOMAIN val.v |->
                   seen_by_caller(val.v[k], Append(path, k), touched, written)])
    ELSE IF val.t = "list"
      THEN JList([i \in 1..Len(val.v) |->
                   seen_by_caller(val.v[i], Append(path, IndexTok(i - 1)), touched, written)])
      ELSE val

\* which objects of the caller's body each stage of transform_request
\* (transform.py:54-72) still holds in what it returns, and what the caller's
\* body is after the call: a stage writes into the caller's body where it
\* writes into an object that is one of the caller's
RECURSIVE frame_stages(_, _, _, _)
frame_stages(stages, k, held, data) ==
    IF k > Len(stages) THEN [data |-> data, held |-> <<>>]
    ELSE LET stage == stages[k]
             result == IF stage_reparses(stage) THEN {}
                       ELSE IF stage_writes(stage) THEN aliases_after_copy(held)
                       ELSE held
             touched == IF stage_writes(stage)
                          THEN { q \in result :
                                   \E w \in written_parents(stage) : IsPrefix(q, w) }
                          ELSE {}
             kept == IF stage_writes(stage)
                       THEN { q \in result :
                                \A o \in overwritten(stage) : ~IsPrefix(o, q) }
                       ELSE result
             rest == frame_stages(stages, k + 1, kept,
                                  seen_by_caller(data, <<>>, touched, stage.post))
         IN  [data |-> rest.data, held |-> <<kept>> \o rest.held]

\* a pipeline that walks its rules last to first
order_of_application_reversed(trs) == [i \in 1..Len(trs) |-> trs[Len(trs) + 1 - i]]

\* transform.py:56: for transformation in self.transformations
order_of_application(trs) == trs

\* ContentTransformer.__init__ with _compile_patterns, as called by
\* create_app (main.py:77): re.error is not caught on the way
compile_config(t) ==
    IF t.type = "regex_replace" /\ t.pattern # <<>>
      THEN [t EXCEPT !.compiled = re_compile(t.pattern)]
      ELSE t

compile_fails(t) ==
    t.type = "regex_replace" /\ t.pattern # <<>> /\ ~re_compile(t.pattern).ok

\* a pipeline that keeps the rules that are switched off
enabled_only_keeps_all(ts) == ts

\* transform.py:24: [t for t in transformations if t.enabled]
enabled_only(ts) == SelectSeq(ts, LAMBDA t : t.enabled)

\* TransformationConfig.value: Optional[Dict[str, Any]] (config.py:90): the
\* validation of AppConfig(**data) accepts None and an object only
value_accepted(v) == v = NoValue \/ v.t = "obj"

\* create_app: AppConfig.from_yaml validates the configuration (a
\* validation error ends the process, main.py:62-64), then
\* ContentTransformer(config.transformations) is built (main.py:77)
Build ==
    /\ tPc = "init"
    /\ LET enabled == enabled_only(tConfig) IN
         IF \E i \in 1..Len(tConfig) : ~value_accepted(tConfig[i].value)
           THEN /\ tPc' = "config_rejected"
                /\ transformations' = <<>>
         ELSE IF \E i \in 1..Len(enabled) : compile_fails(enabled[i])
           THEN /\ tPc' = "build_failed"
                /\ transformations' = <<>>
           ELSE /\ tPc' = "built"
                /\ transformations' = [i \in 1..Len(enabled) |-> compile_config(enabled[i])]
    /\ UNCHANGED <<tConfig, tData, tResult, tStages, tHeld, quotes_fields>>
    /\ UNCHANGED <<retryVars, streamVars, headerVars, requestVars>>

\* ContentTransformer.transform_request
TransformRequest ==
    /\ tPc = "built"
    /\ \E result \in {tData} :   \* data.copy()
       \E stages \in {run_stages(result, order_of_application(transformations))} :
       \E frame \in {frame_stages(stages, 1, containers_below(result, <<>>), tData)} :
           /\ tStages' = stages
           /\ tHeld' = frame.held
           /\ tData' = frame.data
           /\ IF stages # <<>> /\ stages[Len(stages)].propagated
                THEN /\ tPc' = "raised"
                     /\ UNCHANGED tResult
                ELSE /\ tPc' = "done"
                     /\ tResult' = IF stages = <<>> THEN result
                                                    ELSE stages[Len(stages)].post
    /\ UNCHANGED <<tConfig, transformations, quotes_fields>>
    /\ UNCHANGED <<retryVars, streamVars, headerVars, requestVars>>

\* TransformationConfig (config.py:70-92)
Transformation(name, type, enabled, pattern, replacement, path, value) ==
    [name |-> name, type |-> type, enabled |-> enabled, pattern |-> pattern,
     replacement |-> replacement, path |-> path, value |-> value,
     compiled |-> NotCompiled]

ConfiguredValue == JObj("v" :> JNum(1))

TransformationConfigs ==
    { Transformation("addA", "jsonpath_add", TRUE, <<>>, <<>>, <<"$", ".", "a">>, ConfiguredValue),
      Transformation("dropA", "jsonpath_drop", TRUE, <<>>, <<>>, <<"$", ".", "a">>, NoValue),
      Transformation("addX", "jsonpath_add", TRUE, <<>>, <<>>, <<"$", ".", "x">>, JObj("v" :> JNum(1))),
      Transformation("addAB", "jsonpath_add", TRUE, <<>>, <<>>, <<"$", ".", "a", ".", "b">>, EmptyObj),
      Transformation("addABC5", "jsonpath_add", TRUE, <<>>, <<>>,
                     <<"$", ".", "a", ".", "b", ".", "c">>, JNum(5)),
      Transformation("addABCobj", "jsonpath_add", TRUE, <<>>, <<>>,
                     <<"$", ".", "a", ".", "b", ".", "c">>, JObj("v" :> JNum(1))),
      Transformation("addNone", "jsonpath_add", TRUE, <<>>, <<>>, <<"$", ".", "c">>, NoValue),
      Transformation("dropItems", "jsonpath_drop", TRUE, <<>>, <<>>, <<"$", ".", "items", "[0]">>, NoValue),
      Transformation("dropDescendants", "jsonpath_drop", TRUE, <<>>, <<>>, <<"$", "..", "*">>, NoValue),
      Transformation("dropAllItems", "jsonpath_drop", TRUE, <<>>, <<>>,
                     <<"$", ".", "items", "[*]">>, NoValue),
      Transformation("dropFields", "jsonpath_drop", TRUE, <<>>, <<>>, <<"$", ".", "*">>, NoValue),
      Transformation("dropBadPath", "jsonpath_drop", TRUE, <<>>, <<>>, <<"$", ".", ".">>, NoValue),
      Transformation("badRegex", "regex_replace", TRUE, <<Re("(")>>, <<>>, <<>>, NoValue),
      Transformation("renameX", "regex_replace", TRUE, <<Tok("str", "x")>>, <<Tok("str", "c")>>, <<>>, NoValue),
      Transformation("stripBrace", "regex_replace", TRUE, <<P("}")>>, <<>>, <<>>, NoValue),
      Transformation("badTemplate", "regex_replace", TRUE, <<P(":")>>, <<Re("ref9")>>, <<>>, NoValue),
      Transformation("toList", "regex_replace", TRUE, <<Re("^.*$")>>, <<P("["), P("]")>>, <<>>, NoValue),
      Transformation("noPattern", "regex_replace", TRUE, <<>>, <<>>, <<>>, NoValue),
      Transformation("mystery", "rot13", TRUE, <<>>, <<>>, <<>>, NoValue),
      Transformation("offBadRegex", "regex_replace", FALSE, <<Re("[")>>, <<>>, <<>>, NoValue),
      Transformation("offDropA", "jsonpath_drop", FALSE, <<>>, <<>>, <<"$", ".", "a">>, NoValue) }

Bodies ==
    { EmptyObj,
      JObj("a" :> JNum(1)),
      JObj("a" :> JObj("b" :> JNum(1) @@ "c" :> JNum(2))),
      JObj("a" :> JStr("x") @@ "x" :> JNum(1)),
      JObj("items" :> JList(<<JNum(1), JNum(2), JNum(3)>>)),
      JObj("items" :> JList(<<JObj("x" :> JNum(1)), JObj("x" :> JNum(2))>>)),
      JObj("a" :> JNum(5) @@ "items" :> JList(<<>>) @@ "a.b.c" :> JNum(1)) }

RECURSIVE SeqsUpTo(_, _)
SeqsUpTo(S, n) ==
    IF n = 0 THEN { <<>> }
    ELSE LET shorter == SeqsUpTo(S, n - 1)
         IN  shorter \cup { Append(q, x) : q \in shorter, x \in S }

TransformStart ==
    /\ tConfig \in SeqsUpTo(TransformationConfigs, MaxRules)
    /\ tData \in Bodies
    /\ tPc = "init"
    /\ transformations = <<>>
    /\ tResult = NoValue
    /\ tStages = <<>>
    /\ tHeld = <<>>
    /\ quotes_fields \in BOOLEAN

TransformIdle ==
    /\ tConfig = <<>>
    /\ tData = EmptyObj
    /\ tPc = "idle"
    /\ transformations = <<>>
    /\ tResult = NoValue
    /\ tStages = <<>>
    /\ tHeld = <<>>
    /\ quotes_fields = FALSE

TransformNext == Build \/ TransformRequest

----------------------------------------------------------------------------
(* HeaderManipulator (middleware/headers.py) *)

\* a header name or a drop rule is the sequence of its characters
RegexSpecialChars == {".", "*", "+", "?", "[", "]", "{", "}", "(", ")", "^", "$", "|", "\\"}

\* str.lower, on the letters of the model
LowerChar(c) ==
    CASE c = "A" -> "a"
      [] c = "B" -> "b"
      [] c = "X" -> "x"
      [] OTHER -> c

lower(name) == [i \in 1..Len(name) |-> LowerChar(name[i])]

\* re.compile(pattern, re.IGNORECASE) for the patterns of the model: literal
\* characters, ".", a postfix "*", "^" and "$"; "*" with nothing to repeat
\* and any other special character are an re.error
RECURSIVE header_pattern_ok(_, _)
header_pattern_ok(p, canRepeat) ==
    IF p = <<>> THEN TRUE
    ELSE IF Head(p) = "*" THEN canRepeat /\ header_pattern_ok(Tail(p), FALSE)
    ELSE IF Head(p) \in {"^", "$"} THEN header_pattern_ok(Tail(p), FALSE)
    ELSE IF Head(p) \in RegexSpecialChars \ {"."} THEN FALSE
    ELSE header_pattern_ok(Tail(p), TRUE)

CharMatches(pc, c) == pc = "." \/ LowerChar(pc) = LowerChar(c)

\* Pattern.match(header_name): the pattern matches at the start of the name
RECURSIVE match_here(_, _, _)
match_here(p, s, atStart) ==
    IF p = <<>> THEN TRUE
    ELSE IF Len(p) >= 2 /\ p[2] = "*"
      THEN \/ match_here(SubSeq(p, 3, Len(p)), s, atStart)
           \/ /\ s # <<>>
              /\ CharMatches(p[1], s[1])
              /\ match_here(p, Tail(s), FALSE)
    ELSE IF Head(p) = "^" THEN atStart /\ match_here(Tail(p), s, atStart)
    ELSE IF Head(p) = "$" THEN s = <<>> /\ match_here(Tail(p), s, atStart)
    ELSE /\ s # <<>>
         /\ CharMatches(p[1], s[1])
         /\ match_here(Tail(p), Tail(s), FALSE)

pattern_match(p, name) == match_here(p, name, TRUE)

\* headers.py:28: the rule contains a regex special character
is_regex_rule(pattern) == \E i \in 1..Len(pattern) : pattern[i] \in RegexSpecialChars

\* HeaderManipulator.__init__: the exact names and the compiled patterns
exact_drop_headers(cfg) ==
    { lower(cfg.drop_headers[i]) :
        i \in { j \in 1..Len(cfg.drop_headers) : ~is_regex_rule(cfg.drop_headers[j]) } }

compiled_drop_patterns(cfg) ==
    SelectSeq(cfg.drop_headers,
              LAMBDA p : is_regex_rule(p) /\ header_pattern_ok(p, FALSE))

\* a manipulator whose exact rules drop every name that begins with them
should_drop_header_prefix(header_name) ==
    IF \E e \in hExact : IsPrefix(e, lower(header_name)) THEN TRUE
    ELSE IF \E i \in 1..Len(hCompiled) : pattern_match(hCompiled[i], header_name)
      THEN TRUE
      ELSE FALSE

\* HeaderManipulator._should_drop_header
should_drop_header(header_name) ==
    IF lower(header_name) \in hExact THEN TRUE
    ELSE IF \E i \in 1..Len(hCompiled) : pattern_match(hCompiled[i], header_name)
      THEN TRUE
      ELSE FALSE

Restrict(f, S) == [k \in S |-> f[k]]

\* a manipulator whose force step does not override what is there
process_headers_force_if_absent(headers) ==
    LET dropped == IF hConfig.drop_all THEN <<>>
                   ELSE Restrict(headers, { k \in DOMAIN headers : ~should_drop_header(k) })
        added == dropped @@ hConfig.add_headers
    IN  added @@ hConfig.force_headers

\* a manipulator whose add step appends to the value that is there
process_headers_add_appends(headers) ==
    LET dropped == IF hConfig.drop_all THEN <<>>
                   ELSE Restrict(headers, { k \in DOMAIN headers : ~should_drop_header(k) })
        added == [k \in DOMAIN dropped \cup DOMAIN hConfig.add_headers |->
                    IF k \notin DOMAIN dropped THEN hConfig.add_headers[k]
                    ELSE IF k \notin DOMAIN hConfig.add_headers THEN dropped[k]
                    ELSE dropped[k] \o "," \o hConfig.add_headers[k]]
    IN  hConfig.force_headers @@ added

\* a manipulator whose add step overrides what is there
process_headers_add_overrides(headers) ==
    LET dropped == IF hConfig.drop_all THEN <<>>
                   ELSE Restrict(headers, { k \in DOMAIN headers : ~should_drop_header(k) })
        added == hConfig.add_headers @@ dropped
    IN  hConfig.force_headers @@ added

\* a manipulator that applies the drop rules where drop_all is set
process_headers_ignores_drop_all(headers) ==
    LET dropped == Restrict(headers, { k \in DOMAIN headers : ~should_drop_header(k) })
        added == dropped @@ hConfig.add_headers
    IN  hConfig.force_headers @@ added

\* HeaderManipulator.process_headers
process_headers(headers) ==
    LET dropped == IF hConfig.drop_all THEN <<>>
                   ELSE Restrict(headers, { k \in DOMAIN headers : ~should_drop_header(k) })
        added == dropped @@ hConfig.add_headers
    IN  hConfig.force_headers @@ added

\* HeaderManipulator(config.header_rules) (main.py:76)
BuildManipulator ==
    /\ hPc = "init"
    /\ hExact' = exact_drop_headers(hConfig)
    /\ hCompiled' = compiled_drop_patterns(hConfig)
    /\ hPc' = "built"
    /\ UNCHANGED <<hConfig, hIncoming, hResult>>
    /\ UNCHANGED <<retryVars, streamVars, transformVars, requestVars>>

\* one call of process_headers
ProcessHeaders ==
    /\ hPc = "built"
    /\ hResult' = process_headers(hIncoming)
    /\ hPc' = "processed"
    /\ UNCHANGED <<hConfig, hExact, hCompiled, hIncoming>>
    /\ UNCHANGED <<retryVars, streamVars, transformVars, requestVars>>

\* process_headers is called again, on what it returned
ProcessAgain ==
    /\ hPc = "processed"
    /\ hIncoming' = hResult
    /\ hResult' = process_headers(hResult)
    /\ hPc' = "reprocessed"
    /\ UNCHANGED <<hConfig, hExact, hCompiled>>
    /\ UNCHANGED <<retryVars, streamVars, transformVars, requestVars>>

\* the header names and the drop rules of the model
HeaderNames ==
    { <<"a">>, <<"A">>, <<"x", "-", "a">>, <<"X", "-", "a">>, <<"x", "-", "b">>, <<"b">> }

DropRules ==
    { <<"a">>, <<"X", "-", "A">>, <<"x", "-", ".", "*">>, <<"^", "x">>, <<"b", "$">>,
      <<"x", "-">>, <<"(">>, <<"*", "a">> }

\* the maps from at most n of the names to the value v
MapsUpTo(names, n, v) ==
    { [k \in S |-> v] : S \in { T \in SUBSET names : Cardinality(T) <= n } }

\* HeaderRuleConfig (config.py:50-67)
HeaderRuleConfigs ==
    { [drop_all |-> d, drop_headers |-> r, add_headers |-> a, force_headers |-> f] :
        d \in BOOLEAN,
        r \in SeqsUpTo(DropRules, MaxDropRules),
        a \in MapsUpTo(HeaderNames, 1, "added"),
        f \in MapsUpTo(HeaderNames, 1, "forced") }

HeadersStart ==
    /\ hConfig \in HeaderRuleConfigs
    /\ hIncoming \in MapsUpTo(HeaderNames, MaxIncoming, "incoming")
    /\ hPc = "init"
    /\ hExact = {}
    /\ hCompiled = <<>>
    /\ hResult = <<>>

HeadersIdle ==
    /\ hConfig = [drop_all |-> FALSE, drop_headers |-> <<>>, add_headers |-> <<>>,
                  force_headers |-> <<>>]
    /\ hIncoming = <<>>
    /\ hPc = "idle"
    /\ hExact = {}
    /\ hCompiled = <<>>
    /\ hResult = <<>>

HeadersNext == BuildManipulator \/ ProcessHeaders \/ ProcessAgain

----------------------------------------------------------------------------
(* BaseClient (clients/base.py): the calls that share the policies *)

ContentType == <<"c", "o", "n", "t", "e", "n", "t", "-", "t", "y", "p", "e">>

Authorization == <<"a", "u", "t", "h", "o", "r", "i", "z", "a", "t", "i", "o", "n">>

XApiKey == <<"x", "-", "a", "p", "i", "-", "k", "e", "y">>

AnthropicVersion ==
    <<"a", "n", "t", "h", "r", "o", "p", "i", "c", "-", "v", "e", "r", "s", "i", "o", "n">>

Anthropic == <<"a", "n", "t", "h", "r", "o", "p", "i", "c">>

\* needle in hay, for two strings
contains(needle, hay) ==
    \E i \in 1..(Len(hay) - Len(needle) + 1) :
        SubSeq(hay, i, i + Len(needle) - 1) = needle

\* a client that takes only the provider named "anthropic" for Anthropic
is_anthropic_exact(provider) == provider = Anthropic

\* base.py:81: "anthropic" in self.model_config.provider.lower()
is_anthropic(provider) == contains(Anthropic, lower(provider))

\* BaseClient._prepare_headers, base.py:75-89: the headers handed to
\* process_headers; the clients pass no additional headers
credential_headers(model_config) ==
    LET headers == ContentType :> "application/json"
    IN  IF model_config.api_key # ""
          THEN IF is_anthropic(model_config.provider)
                 THEN (XApiKey :> model_config.api_key)
                      @@ (AnthropicVersion :> "2023-06-01") @@ headers
                 ELSE (Authorization :> "Bearer " \o model_config.api_key) @@ headers
          ELSE headers

\* a client that hands the headers of the inbound call on to _prepare_headers
additional_headers_from_inbound(inbound) == inbound

\* the headers argument of _make_request / _stream_request: the clients call
\* them with method, path and data only (clients/openai.py:28-31, 45-48), so
\* it keeps its default None, whatever headers the inbound call carried
additional_headers(inbound) == <<>>

\* BaseClient._prepare_headers, base.py:75-89: the credential headers,
\* updated with the additional headers
headers_to_process(model_config, inbound) ==
    additional_headers(inbound) @@ credential_headers(model_config)

\* a client that attaches the credential to what the manipulator returned
prepare_headers_credential_last(model_config, inbound) ==
    credential_headers(model_config) @@ process_headers(additional_headers(inbound))

\* BaseClient._prepare_headers
prepare_headers(model_config, inbound) ==
    process_headers(headers_to_process(model_config, inbound))

\* bool(data) of `if data:` (base.py:127, 185)
truthy(data) == data # NoValue /\ ~(data.t = "obj" /\ DOMAIN data.v = {})

\* the handlers of the routers up to the call of the client
\* (routers/openai.py:89-97, 149-157; routers/anthropic.py:77-92): the body
\* is req_data.model_dump(exclude_none=True), which always holds the required
\* field model; create_message replaces model by actual_model_name
Route(r) ==
    /\ requests[r].pc = "received"
    /\ LET q == requests[r]
           dumped == JObj(("model" :> JStr(q.model_config.name)) @@ q.payload.v)
           data == IF /\ q.operation = "messages"
                      /\ q.model_config.actual_model_name # ""
                     THEN JObj(("model" :> JStr(q.model_config.actual_model_name))
                               @@ dumped.v)
                     ELSE dumped
       IN  requests' = [requests EXCEPT ![r].data = data, ![r].pc = "new"]
    /\ UNCHANGED <<retryVars, streamVars, transformVars, headerVars>>

\* response.json() succeeds
body_is_json(response) == response.id = 0

\* what the inbound caller is answered with: a status code and a body
Answer(status_code, body) == [status_code |-> status_code, body |-> body]

NoAnswer == Answer(0, None)

\* the handlers' except Exception (routers/openai.py:124-132, 184-192;
\* routers/anthropic.py:119-127): HTTPException(500) with str(e) as message
internal_error(e) == Answer(500, e)

\* the buffered branch of the handlers (routers/openai.py:116-118, 176-178;
\* routers/anthropic.py:111-113) once _make_request is over with outcome o:
\* the handler returns response.json(), which FastAPI sends with the status
\* code of the route, 200
answer_of(o) ==
    IF o.kind = "Response"
      THEN IF body_is_json(o) THEN Answer(200, o)
                              ELSE internal_error(Exc("JSONDecodeError", 0))
      ELSE internal_error(o)

\* a handler that closes the client after a successful return only
closes_on_success_only(o) == IF o.kind = "Response" /\ body_is_json(o) THEN 1 ELSE 0

\* finally: await client.close() (routers/openai.py:119-120, 179-180;
\* routers/anthropic.py:114-115): how often the buffered branch closes the
\* client when the call is over with outcome o
closes_in_finally(o) == 1

\* base.py:123-143 and 181-193: the code of _make_request / _stream_request
\* up to the first await: _prepare_headers, then _transform_request
StartRequest(r) ==
    /\ requests[r].pc = "new"
    /\ \E prepared_headers \in {prepare_headers(requests[r].model_config,
                                                requests[r].inbound)} :
       \E stages \in {IF truthy(requests[r].data)
                        THEN run_stages(requests[r].data,
                                        order_of_application(transformations))
                        ELSE <<>>} :
       \E shared \in {share_stages(stages, 1, {}, transformations)} :
         LET raised == stages # <<>> /\ stages[Len(stages)].propagated
             data == IF stages = <<>> THEN requests[r].data
                                      ELSE stages[Len(stages)].post
         IN  /\ transformations' = shared.transformations
             /\ requests' = [requests EXCEPT
                   ![r].pc = IF raised THEN "raised" ELSE "sending",
                   ![r].incoming = headers_to_process(requests[r].model_config,
                                                      requests[r].inbound),
                   ![r].prepared_headers = prepared_headers,
                   ![r].body = data,
                   ![r].aliases = shared.aliases,
                   ![r].log = <<"headers">>
                              \o (IF truthy(requests[r].data) THEN <<"transform">>
                                                                ELSE <<>>),
                   ![r].answer = IF raised /\ requests[r].mode = "buffered"
                                   THEN answer_of(Exc("Exception", 0)) ELSE @,
                   ![r].closes = IF raised /\ requests[r].mode = "buffered"
                                   THEN @ + closes_in_finally(Exc("Exception", 0))
                                   ELSE @]
    /\ UNCHANGED <<tConfig, tPc, tData, tResult, tStages, tHeld, quotes_fields>>
    /\ UNCHANGED <<retryVars, streamVars, headerVars>>

\* what client.request() / client.stream() can answer with; a response
\* numbered 1 carries a body that is not JSON
SendOutcomes ==
    { Response(200, 0), Response(200, 1), Response(404, 0), Response(429, 0),
      Exc("ConnectError", 0), Exc("ConnectTimeout", 0), Exc("ValueError", 0) }

\* the request client.request(json=data, headers=prepared_headers) puts on
\* the wire
Sent(r) == [headers |-> requests[r].prepared_headers, json |-> requests[r].body]

\* _make_request: one await of _request() inside execute_with_retry returns
\* or raises (base.py:134-146, retry.py:70-122)
RequestAnswered(r) ==
    /\ requests[r].mode = "buffered"
    /\ requests[r].pc = "sending"
    /\ \E o \in SendOutcomes :
         LET response == IF o.kind = "Response" THEN o ELSE None
             exception == IF o.kind = "Exception" THEN o ELSE None
             again == /\ should_retry(response, exception)
                      /\ requests[r].attempt < config.max_retries
         IN  requests' = [requests EXCEPT
                 ![r].sends = Append(@, Sent(r)),
                 ![r].log = Append(@, "send"),
                 ![r].outcome = o,
                 ![r].pc = IF again THEN "sleeping"
                           ELSE IF o.kind = "Response" THEN "returned" ELSE "raised",
                 ![r].answer = IF again THEN @ ELSE answer_of(o),
                 ![r].closes = IF again THEN @ ELSE @ + closes_in_finally(o)]
    /\ UNCHANGED <<retryVars, streamVars, transformVars, headerVars>>

\* a call that rewrites its headers again before each further attempt
RequestWakeUp_rewrites(r) ==
    /\ requests[r].mode = "buffered"
    /\ requests[r].pc = "sleeping"
    /\ requests' = [requests EXCEPT
           ![r].pc = "sending",
           ![r].attempt = @ + 1,
           ![r].prepared_headers = prepare_headers(requests[r].model_config,
                                                    requests[r].inbound),
           ![r].log = Append(@, "headers")]
    /\ UNCHANGED <<retryVars, streamVars, transformVars, headerVars>>

\* asyncio.sleep(delay) returns (retry.py:97, 118) and the loop calls
\* _request() again, with the prepared_headers and data of its closure
RequestWakeUp(r) ==
    /\ requests[r].mode = "buffered"
    /\ requests[r].pc = "sleeping"
    /\ requests' = [requests EXCEPT ![r].pc = "sending", ![r].attempt = @ + 1]
    /\ UNCHANGED <<retryVars, streamVars, transformVars, headerVars>>

\* _stream_request: the async with of client.stream() is entered and
\* raise_for_status() ran (base.py:192-199), or either raised (base.py:204-207)
StreamConnected(r) ==
    /\ requests[r].mode = "streaming"
    /\ requests[r].pc = "sending"
    /\ \E o \in SendOutcomes :
         LET failure == IF o.kind = "Response" /\ o.status_code >= 400
                          THEN Exc("HTTPStatusError", 0)
                          ELSE o
         IN  requests' = [requests EXCEPT
                 ![r].sends = Append(@, Sent(r)),
                 ![r].log = Append(@, "send"),
                 ![r].outcome = failure,
                 ![r].pc = IF failure.kind = "Response" THEN "streaming" ELSE "raised"]
    /\ UNCHANGED <<retryVars, streamVars, transformVars, headerVars>>

\* response.aiter_bytes() is exhausted and the async with is left
StreamFinished(r) ==
    /\ requests[r].mode = "streaming"
    /\ requests[r].pc = "streaming"
    /\ requests' = [requests EXCEPT ![r].pc = "returned"]
    /\ UNCHANGED <<retryVars, streamVars, transformVars, headerVars>>

\* config.models: the name a caller uses, and the ModelConfig (config.py:29-47)
\* it resolves to; "" stands for an api_key or actual_model_name of None
ModelConfigs ==
    { [name |-> "fast", provider |-> <<"o", "p", "e", "n", "a", "i">>, api_key |-> "sk",
       actual_model_name |-> "gpt-4o-mini"],
      [name |-> "smart", provider |-> <<"A", "n", "t", "h", "r", "o", "p", "i", "c">>,
       api_key |-> "sk", actual_model_name |-> "claude-3"],
      [name |-> "hosted",
       provider |-> <<"A", "n", "t", "h", "r", "o", "p", "i", "c", "-", "e", "u">>,
       api_key |-> "sk", actual_model_name |-> ""],
      [name |-> "local", provider |-> <<"o", "l", "l", "a", "m", "a">>, api_key |-> "",
       actual_model_name |-> ""] }

\* the proxied operations: POST /v1/chat/completions, /v1/completions
\* (routers/openai.py) and /v1/messages (routers/anthropic.py)
Operations == {"chat_completions", "completions", "messages"}

\* the operations and models of the calls that reach a client: messages
\* takes the models whose provider is "anthropic" in whatever case
\* (routers/anthropic.py:39), the OpenAI routes take the others
Routes ==
    { x \in [operation : Operations, model_config : ModelConfigs] :
        /\ (x.operation = "messages") <=> (lower(x.model_config.provider) = Anthropic)
        /\ x.operation = "completions" => x.model_config.name = "fast" }

\* what a caller sends besides the required field model: the request models
\* of the operations differ (models.py:17-47, 98-110)
RequestBodies(operation) ==
    IF operation = "completions"
      THEN { JObj("a" :> JNum(1)) }
      ELSE { JObj("a" :> JStr("x") @@ "x" :> JNum(1)) }

\* chat_completion(data, stream): stream decides between _make_request and
\* _stream_request (clients/openai.py:28-31)
Modes == {"buffered", "streaming"}

NewRequest(mode, route, payload) ==
    [mode |-> mode, operation |-> route.operation, model_config |-> route.model_config,
     payload |-> payload, inbound |-> <<>>, data |-> NoValue, pc |-> "received",
     incoming |-> <<>>, prepared_headers |-> <<>>, body |-> NoValue, aliases |-> {},
     log |-> <<>>, sends |-> <<>>, attempt |-> 0, outcome |-> None,
     answer |-> NoAnswer, closes |-> 0]

\* the HTTP headers of the inbound calls: each caller sends its own
\* authorization, the second a header of its own besides
InboundHeaders(r) ==
    IF r = 1 THEN (Authorization :> "caller-1")
             ELSE (Authorization :> "caller-2") @@ (<<"x", "-", "b">> :> "caller-2")

Rule(name) == CHOOSE t \in TransformationConfigs : t.name = name

\* the rule lists, header policies and retry policies the calls share
RequestRuleLists ==
    { <<Rule("addA"), Rule("addAB")>>,
      <<Rule("addX"), Rule("renameX")>>,
      <<Rule("offBadRegex"), Rule("dropA")>> }

RequestHeaderPolicies ==
    { [drop_all |-> FALSE, drop_headers |-> <<>>, add_headers |-> <<>>,
       force_headers |-> <<>>],
      [drop_all |-> FALSE, drop_headers |-> << <<"x", "-", ".", "*">> >>,
       add_headers |-> (<<"x", "-", "a">> :> "added"),
       force_headers |-> (Authorization :> "forced")],
      [drop_all |-> TRUE, drop_headers |-> <<>>,
       add_headers |-> (ContentType :> "added"), force_headers |-> <<>>] }

RequestRetryPolicies ==
    { c \in RetryConfigs : /\ c.max_retries <= 1
                           /\ c.retry_status_codes = {429}
                           /\ c.initial_delay = 10 }

\* create_app (main.py:74-78) has built the shared objects
PoliciesBuilt ==
    /\ hConfig \in RequestHeaderPolicies
    /\ hExact = exact_drop_headers(hConfig)
    /\ hCompiled = compiled_drop_patterns(hConfig)
    /\ hPc = "built"
    /\ hIncoming = <<>>
    /\ hResult = <<>>
    /\ tConfig \in RequestRuleLists
    /\ transformations = [i \in 1..Len(enabled_only(tConfig)) |->
                            compile_config(enabled_only(tConfig)[i])]
    /\ tPc = "built"
    /\ tData = EmptyObj
    /\ tResult = NoValue
    /\ tStages = <<>>
    /\ tHeld = <<>>
    /\ quotes_fields = FALSE   \* the bodies of the calls hold plain names only
    /\ config \in RequestRetryPolicies
    /\ rPc = "idle"
    /\ attempt = 0
    /\ last_response = None
    /\ last_exception = None
    /\ rOutcome = None
    /\ calls = <<>>
    /\ sleeps = <<>>

\* the calls that come in over the routes begin
RequestStart ==
    /\ PoliciesBuilt
    /\ \E calls_made \in [1..NumRequests ->
                       UNION { { NewRequest(m, c, d) : d \in RequestBodies(c.operation) } :
                                 m \in Modes, c \in Routes }] :
         requests = [r \in 1..NumRequests |->
                       [calls_made[r] EXCEPT !.inbound = InboundHeaders(r)]]

\* no call in flight
RequestIdle == requests = <<>>

\* the bodies a caller of the client methods may hand over: data is any
\* Dict[str, Any] (clients/openai.py:16-18), the empty one included
ClientBodies == { EmptyObj, JObj("x" :> JNum(1)) }

\* a call of OpenAIClient.chat_completion(data, stream) itself
\* (clients/openai.py:16-31), with no handler of the routers before it
ClientCall(mode, data) ==
    [NewRequest(mode, [operation |-> "chat_completion",
                       model_config |-> CHOOSE c \in ModelConfigs : c.name = "fast"],
                data)
       EXCEPT !.data = data, !.pc = "new"]

ClientStart ==
    /\ PoliciesBuilt
    /\ requests \in [1..NumRequests -> { ClientCall(m, d) : m \in Modes, d \in ClientBodies }]

ClientNext ==
    \E r \in DOMAIN requests :
        \/ StartRequest(r)
        \/ RequestAnswered(r)
        \/ RequestWakeUp(r)
        \/ StreamConnected(r)
        \/ StreamFinished(r)

RequestNext ==
    \E r \in DOMAIN requests :
        \/ Route(r)
        \/ StartRequest(r)
        \/ RequestAnswered(r)
        \/ RequestWakeUp(r)
        \/ StreamConnected(r)
        \/ StreamFinished(r)

----------------------------------------------------------------------------
(* Specifications: one per component, the others at rest *)

RetryIdle ==
    /\ config \in { c \in RetryConfigs : c.max_retries = 0 /\ c.retry_status_codes = {}
                                          /\ c.initial_delay = 10 }
    /\ rPc = "idle"
    /\ attempt = 0
    /\ last_response = None
    /\ last_exception = None
    /\ rOutcome = None
    /\ calls = <<>>
    /\ sleeps = <<>>

\* the RetryHandler a streaming client is built with (base.py:42) and
\* never calls
RetryUnused ==
    /\ config \in { c \in RetryConfigs :
                      /\ c.max_retries \in {0, MaxRetriesBound}
                      /\ c.retry_status_codes \in { {}, {429, 500, 502, 503, 504} }
                      /\ c.initial_delay = 10 }
    /\ rPc = "idle"
    /\ attempt = 0
    /\ last_response = None
    /\ last_exception = None
    /\ rOutcome = None
    /\ calls = <<>>
    /\ sleeps = <<>>

StreamIdle ==
    /\ sPc = "idle"
    /\ respState = "none"
    /\ respOpens = 0
    /\ respCloses = 0
    /\ clientCloses = 0
    /\ chunks = <<>>
    /\ upFailure = None
    /\ frames = <<>>
    /\ toConsumer = None
    /\ pending = <<>>

RetryInit == RetryStart /\ StreamIdle /\ TransformIdle /\ HeadersIdle /\ RequestIdle

StreamInit == StreamStart /\ RetryUnused /\ TransformIdle /\ HeadersIdle /\ RequestIdle

TransformInit == TransformStart /\ RetryIdle /\ StreamIdle /\ HeadersIdle /\ RequestIdle

HeadersInit == HeadersStart /\ RetryIdle /\ StreamIdle /\ TransformIdle /\ RequestIdle

SpecHeaders == HeadersInit /\ [][HeadersNext]_vars

SpecTransform == TransformInit /\ [][TransformNext]_vars

SpecStream == StreamInit /\ [][StreamNext]_vars

SpecRetry == RetryInit /\ [][RetryNext]_vars

RequestInit == RequestStart /\ StreamIdle

SpecRequest == RequestInit /\ [][RequestNext]_vars

ClientInit == ClientStart /\ StreamIdle

SpecClient == ClientInit /\ [][ClientNext]_vars

\* every await of execute_with_retry (func(), asyncio.sleep) returns
SpecRetryLive == RetryInit /\ [][RetryNext]_vars /\ WF_vars(RetryNext)

----------------------------------------------------------------------------
(* Claims about execute_with_retry *)

RetryTerminal == rPc \in {"returned", "raised"}

IsRetryableResponse(o) ==
    o.kind = "Response" /\ o.status_code \in config.retry_status_codes

IsPlainResponse(o) ==
    o.kind = "Response" /\ o.status_code \notin config.retry_status_codes

NetworkFailureClasses == {"ConnectError", "ConnectTimeout", "ReadTimeout", "ReadError"}

IsNetworkFailure(o) == o.kind = "Exception" /\ o.cls \in NetworkFailureClasses

IsOtherFailure(o) == o.kind = "Exception" /\ o.cls \notin NetworkFailureClasses

\* C1: when every attempt so far returned a response with a retryable status,
\* at most max_retries + 1 attempts are made, and once the call is over it has
\* made exactly max_retries + 1 attempts and returned (not raised) the
\* response of the last one.
C1_ExhaustionReturnsLastResponse ==
    (Len(calls) >= 1 /\ \A i \in 1..Len(calls) : IsRetryableResponse(calls[i]))
      => /\ Len(calls) <= config.max_retries + 1
         /\ Len(calls) < config.max_retries + 1 => ~RetryTerminal
         /\ RetryTerminal =>
               /\ rPc = "returned"
               /\ rOutcome = calls[Len(calls)]
               /\ Len(calls) = config.max_retries + 1

C1_Witness ==
    /\ rPc = "returned"
    /\ config.max_retries >= 1
    /\ Len(calls) = config.max_retries + 1
    /\ \A i \in 1..Len(calls) : IsRetryableResponse(calls[i])

\* C2: a response whose status is not in retry_status_codes ends the call at
\* once: it is the last attempt, it is the value returned, no sleep follows it
\* and nothing is raised.
C2_PlainResponseReturnedAtOnce ==
    \A i \in 1..Len(calls) :
        IsPlainResponse(calls[i])
          => /\ i = Len(calls)
             /\ rPc = "returned"
             /\ rOutcome = calls[i]
             /\ Len(sleeps) = i - 1

C2_Witness ==
    /\ rPc = "returned"
    /\ Len(calls) = 2
    /\ config.max_retries = 2
    /\ IsRetryableResponse(calls[1])
    /\ calls[2].kind = "Response" /\ calls[2].status_code = 400
    /\ 400 \notin config.retry_status_codes

\* C3: a network-level failure raised by the attempt with index i - 1 is
\* followed by a sleep and a further attempt while i - 1 < max_retries; raised
\* by the attempt with index max_retries, it is the failure the call raises.
C3_NetworkFailureRetriedThenRaised ==
    \A i \in 1..Len(calls) :
        IsNetworkFailure(calls[i])
          => IF i - 1 < config.max_retries
               THEN /\ Len(sleeps) >= i
                    /\ i = Len(calls) => (rPc \in {"sleeping", "loop"} /\ Len(sleeps) = i)
                    /\ (i = Len(calls) /\ rPc = "loop") => attempt = i
               ELSE /\ i = Len(calls)
                    /\ rPc = "raised"
                    /\ rOutcome = calls[i]
                    /\ Len(sleeps) = i - 1

C3_Witness ==
    /\ rPc = "raised"
    /\ config.max_retries = 2
    /\ Len(calls) = 3
    /\ calls[1].kind = "Exception" /\ calls[1].cls = "ConnectError"
    /\ IsRetryableResponse(calls[2])
    /\ calls[3].kind = "Exception" /\ calls[3].cls = "ReadTimeout"
    /\ rOutcome = calls[3]

\* C4: a failure that is not a network-level failure is raised by the call at
\* once: it is the last attempt, no sleep follows it, whatever attempts remain.
C4_OtherFailurePropagatesAtOnce ==
    \A i \in 1..Len(calls) :
        IsOtherFailure(calls[i])
          => /\ i = Len(calls)
             /\ rPc = "raised"
             /\ rOutcome = calls[i]
             /\ Len(sleeps) = i - 1

C4_Witness ==
    /\ rPc = "raised"
    /\ config.max_retries = 2
    /\ Len(calls) = 1
    /\ calls[1].kind = "Exception" /\ calls[1].cls = "ValueError"
    /\ rOutcome = calls[1]
    /\ sleeps = <<>>

\* C13: execute_with_retry invokes func() at least once and at most
\* max_retries + 1 times and then ends by returning or raising; with
\* max_retries = 0 it invokes func() exactly once and never sleeps.
C13_BoundedAttemptsThenEnd ==
    /\ [](/\ Len(calls) <= config.max_retries + 1
          /\ RetryTerminal => Len(calls) >= 1
          /\ config.max_retries = 0 => sleeps = <<>>
          /\ (config.max_retries = 0 /\ RetryTerminal) => Len(calls) = 1)
    /\ <>RetryTerminal

C13_Witness ==
    /\ RetryTerminal
    /\ config.max_retries = 0
    /\ Len(calls) = 1
    /\ IsRetryableResponse(calls[1])
    /\ sleeps = <<>>

\* the delay d, a fraction of tenths of a second, is
\* min(initial_delay * backoff_factor ^ i, max_delay)
IsBackoffDelay(d, i) ==
    IF config.initial_delay * Pow(config.backoff_factor, i) <= config.max_delay * Pow(10, i)
      THEN d.num * Pow(10, i) = config.initial_delay * Pow(config.backoff_factor, i) * d.den
      ELSE d.num = config.max_delay * d.den

\* C14: the k-th sleep follows the retryable outcome of the attempt with
\* index k - 1 and lasts min(initial_delay * backoff_factor ^ (k - 1),
\* max_delay); one sleep separates consecutive attempts and none follows the
\* last one. With max_retries = 2, initial_delay = 1 s, backoff_factor = 2,
\* max_delay = 10 s, retry_status_codes = {429} and three 429 responses the
\* delays are 1 s and 2 s, there are three attempts and the 429 is returned.
C14_BackoffDelays ==
    /\ \A k \in 1..Len(sleeps) :
          /\ IsBackoffDelay(sleeps[k], k - 1)
          /\ k <= Len(calls)
          /\ IsRetryableResponse(calls[k]) \/ IsNetworkFailure(calls[k])
    /\ rPc = "loop" => Len(sleeps) = Len(calls)
    /\ rPc = "sleeping" => Len(sleeps) = Len(calls)
    /\ (RetryTerminal \/ rPc = "exhausted") => Len(sleeps) = Len(calls) - 1
    /\ ( /\ config = [max_retries |-> 2, retry_status_codes |-> {429},
                       backoff_factor |-> 20, initial_delay |-> 10, max_delay |-> 100]
         /\ Len(calls) = 3
         /\ \A i \in 1..3 : calls[i].kind = "Response" /\ calls[i].status_code = 429 )
        => /\ Len(sleeps) = 2
           /\ sleeps[1].num = 10 * sleeps[1].den
           /\ sleeps[2].num = 20 * sleeps[2].den
           /\ rPc \in {"exhausted", "returned"}
           /\ rPc = "returned" => rOutcome = calls[3]

C14_Witness ==
    /\ rPc = "returned"
    /\ config.max_retries = 2
    /\ config.initial_delay = 50 /\ config.backoff_factor = 30 /\ config.max_delay = 100
    /\ Len(calls) = 3
    /\ Len(sleeps) = 2
    /\ sleeps[1].num = 50 * sleeps[1].den
    /\ sleeps[2].num = 100 * sleeps[2].den

\* a failure that should_retry accepts
IsRetryableFailure(o) == o.kind = "Exception" /\ should_retry(None, o)

\* C31: whatever mix of retryable responses and retryable failures the
\* attempts of one call produced, the call ends with the outcome of its last
\* attempt: a retryable response of the final attempt is returned even if
\* earlier attempts raised, a retryable failure of the final attempt is raised
\* even if earlier attempts returned responses, and the RuntimeError of
\* line 131 is never raised.
C31_FinalAttemptDecides ==
    /\ rPc \in {"loop", "sleeping", "exhausted", "returned", "raised"}
         => rOutcome # Exc("RuntimeError", 0)
    /\ RetryTerminal
         => /\ rOutcome = calls[Len(calls)]
            /\ IsRetryableResponse(calls[Len(calls)])
                 => rPc = "returned" /\ Len(calls) = config.max_retries + 1
            /\ IsRetryableFailure(calls[Len(calls)])
                 => rPc = "raised" /\ Len(calls) = config.max_retries + 1

C31_Witness ==
    /\ rPc = "returned"
    /\ Len(calls) = 3
    /\ IsRetryableResponse(calls[1])
    /\ IsRetryableFailure(calls[2])
    /\ IsRetryableResponse(calls[3])
    /\ rOutcome = calls[3]
    /\ last_exception = calls[2]

----------------------------------------------------------------------------
(* Claims about the streaming relay *)

\* the text of the chunks that are not empty and decode, in upstream order
RECURSIVE Forwarded(_)
Forwarded(cs) ==
    IF cs = <<>> THEN <<>>
    ELSE IF Head(cs) # <<>> /\ decode(Head(cs)).ok
      THEN <<decode(Head(cs)).text>> \o Forwarded(Tail(cs))
      ELSE Forwarded(Tail(cs))

\* C5: once the upstream byte stream has raised a failure, the frames the
\* consumer got are the frames of the chunks received before it, in order,
\* followed by exactly one terminal frame: a data: line carrying
\* {"error": {"message": ..., "type": "stream_error"}} and a blank line.
\* Nothing follows that frame and the failure never reaches the consumer.
C5_FailureBecomesOneTerminalFrame ==
    upFailure # None
      => /\ frames = Forwarded(chunks) \o
                       << << "data: ", "{", "error", ":", "{", "message", ":",
                             "Streaming error: ", upFailure.cls, ",",
                             "type", ":", "stream_error", "}", "}", "\n", "\n" >> >>
         /\ toConsumer = None
         /\ sPc \in {"errYielded", "done", "abandoned"}

C5_Witness ==
    /\ upFailure # None
    /\ Len(chunks) = 2
    /\ Len(frames) = 3
    /\ frames[1] = <<"A">>
    /\ sPc = "done"

\* the streaming call is over: the sequence ended, an exception reached the
\* consumer, or the consumer abandoned it and every finalizer has run
StreamOver ==
    \/ sPc \in {"done", "raised"}
    \/ sPc = "abandoned" /\ pending = <<>>

\* C6: on every exit path of a streaming call (natural end, upstream
\* failure, cancellation, the consumer abandoning the sequence, also before
\* its first frame) the transport of the call is released exactly once and
\* no upstream response is left open.
C6_ReleasedExactlyOnce ==
    StreamOver => (clientCloses = 1 /\ respState # "open")

\* C16: once a chunk has been received, a failure of the upstream stream
\* (a read timeout included) ends the call: the upstream request is never
\* issued again, so the call opens at most one upstream response, and after
\* the failure the relay neither connects nor reads any more.
C16_NoRetryMidStream ==
    /\ respOpens <= 1
    /\ (chunks # <<>> /\ upFailure # None)
         => /\ sPc \in {"errYielded", "done", "abandoned"}
            /\ respState = "closed"
            /\ respOpens = 1 /\ respCloses = 1

C16_Witness ==
    /\ chunks # <<>>
    /\ upFailure = Exc("ReadTimeout", 0)
    /\ sPc = "done"
    /\ respOpens = 1

\* the frame of streaming.py:41-47 for the exception class c
StreamErrorFrame(c) ==
    << "data: ", "{", "error", ":", "{", "message", ":", "Streaming error: ", c, ",",
       "type", ":", "stream_error", "}", "}", "\n", "\n" >>

\* the consumer has cancelled the call or dropped the sequence
ConsumerGone == sPc \in {"raised", "abandoned"}

\* C17: when the consumer cancels the call or drops the sequence before the
\* upstream has ended, the relay from then on reads no chunk and yields no
\* frame; a cancellation reaches the consumer as CancelledError, it is not
\* swallowed, and no stream_error frame is made of the cancellation or of
\* the GeneratorExit of the abandoned generators.
C17_CancellationObserved ==
    /\ [](sPc = "raised" => toConsumer = Exc("CancelledError", 0))
    /\ [](ConsumerGone =>
            \A i \in 1..Len(frames) :
                /\ frames[i] # StreamErrorFrame("CancelledError")
                /\ frames[i] # StreamErrorFrame("GeneratorExit"))
    /\ []((ConsumerGone /\ upFailure = None) => frames = Forwarded(chunks))
    /\ [][ConsumerGone => (chunks' = chunks /\ frames' = frames /\ ConsumerGone')]_vars

C17_Witness ==
    /\ sPc = "abandoned"
    /\ pending = <<>>
    /\ upFailure = None
    /\ Len(chunks) = 1
    /\ Len(frames) = 1
    /\ respState = "closed"

\* C18: the frames stream_response yields before it ends are the texts of
\* the upstream chunks that are not empty and decode as UTF-8, one frame per
\* such chunk, in upstream order; an empty chunk or one that does not decode
\* is skipped and the chunks after it are still forwarded. Only the terminal
\* frame of an upstream failure follows them.
C18_FramesAreDecodedChunksInOrder ==
    IF upFailure = None
      THEN frames = Forwarded(chunks)
      ELSE /\ Len(frames) = Len(Forwarded(chunks)) + 1
           /\ SubSeq(frames, 1, Len(frames) - 1) = Forwarded(chunks)

C18_Witness ==
    /\ chunks = << <<195>>, <<65, 195, 169>> >>
    /\ frames = << <<"A", "e-acute">> >>
    /\ sPc = "done"

\* the upstream answered the opened connection with an error status
AnsweredWithError == upFailure.kind = "Exception" /\ upFailure.cls = "HTTPStatusError"

\* C32: in streaming mode, when the upstream answers the opened connection
\* with an error status (>= 400), no chunk of the upstream body is read or
\* forwarded, the connection is opened once only, even when the status is one
\* of retry_status_codes, and a consumer that reads on receives exactly one
\* stream_error frame and then the end of the sequence.
C32_ErrorStatusEndsStreamUnretried ==
    AnsweredWithError
      => /\ upFailure.id >= 400
         /\ chunks = <<>>
         /\ respOpens = 1
         /\ respState = "closed"
         /\ toConsumer = None
         /\ \A i \in 1..Len(frames) : frames[i] = error_frame(upFailure)
         /\ Len(frames) <= 1
         /\ sPc \in {"errYielded", "done"} => frames = <<error_frame(upFailure)>>
         /\ sPc \in {"errYielded", "done", "abandoned"}

C32_Witness ==
    /\ AnsweredWithError
    /\ upFailure.id \in config.retry_status_codes
    /\ config.max_retries >= 1
    /\ sPc = "done"
    /\ frames = <<error_frame(upFailure)>>
    /\ clientCloses = 1

----------------------------------------------------------------------------
(* Claims about the content transformer *)

TransformOver == tPc \in {"done", "raised"}

RuleNames(ts) == [i \in 1..Len(ts) |-> ts[i].name]

\* C7: transform_request never raises. A stage that raises, or that logs an
\* error and gives up, leaves the running body equal to the body it received,
\* and every later enabled rule is still applied, each to the output of the
\* stage before it.
C7_StageFailureIsolated ==
    TransformOver
      => /\ tPc = "done"
         /\ Len(tStages) = Len(transformations)
         /\ \A i \in 1..Len(tStages) :
               /\ tStages[i].rule = transformations[i]
               /\ tStages[i].pre = (IF i = 1 THEN tData ELSE tStages[i - 1].post)
               /\ (tStages[i].out = "raise" \/ tStages[i].err)
                     => tStages[i].post = tStages[i].pre
         /\ tResult = (IF tStages = <<>> THEN tData ELSE tStages[Len(tStages)].post)

C7_Witness ==
    /\ tPc = "done"
    /\ Len(tStages) = 2
    /\ tStages[1].out = "raise"
    /\ tStages[2].pre = tData
    /\ tStages[2].post # tStages[2].pre
    /\ tResult = tStages[2].post

\* C8: a regex_replace rule whose pattern does not compile is a no-op and not
\* a fatal error: building the pipeline succeeds, and the pipeline
\* [regex_replace(invalid pattern), jsonpath_add $.x] run on {} yields a body
\* holding x.
C8_InvalidPatternIsNoOp ==
    (\E i \in 1..Len(tConfig) :
        /\ tConfig[i].enabled
        /\ tConfig[i].type = "regex_replace"
        /\ tConfig[i].pattern \in { <<Re("(")>>, <<Re("[")>> })
      => /\ tPc # "build_failed"
         /\ (tPc \notin {"init", "built"} /\ RuleNames(tConfig) = <<"badRegex", "addX">>
                /\ tData = EmptyObj)
              => (tPc = "done" /\ tResult = JObj("x" :> JObj("v" :> JNum(1))))

\* C10: the enabled rules are applied in the configured order, each to the
\* output of the one before: jsonpath_add $.a then jsonpath_drop $.a on {}
\* yields {}, jsonpath_drop $.a then jsonpath_add $.a on {} yields a body
\* whose key a holds the configured value.
C10_RulesApplyInListOrder ==
    tPc = "done"
      => /\ RuleNames(transformations) = <<"addA", "dropA">> /\ tData = EmptyObj
              => tResult = EmptyObj
         /\ RuleNames(transformations) = <<"dropA", "addA">> /\ tData = EmptyObj
              => tResult = JObj("a" :> JObj("v" :> JNum(1)))
         /\ \A i \in 1..Len(tStages) :
               /\ i <= Len(transformations) /\ tStages[i].rule = transformations[i]
               /\ tStages[i].pre = (IF i = 1 THEN tData ELSE tStages[i - 1].post)

C10_Witness ==
    /\ tPc = "done"
    /\ RuleNames(tConfig) = <<"addA", "dropA">>
    /\ tData = EmptyObj
    /\ tStages[1].post = JObj("a" :> JObj("v" :> JNum(1)))
    /\ tStages[2].pre = tStages[1].post
    /\ tResult = EmptyObj

\* the location p is a proper ancestor of the location q
IsAncestor(p, q) ==
    /\ Len(p) < Len(q)
    /\ SubSeq(q, 1, Len(p)) = p
    /\ q[Len(p) + 1] = "."

\* the value holds something at the location given by its parts
RECURSIVE HasLocation(_, _)
HasLocation(val, parts) ==
    IF parts = <<>> THEN TRUE
    ELSE IF val.t = "obj"
      THEN Head(parts) \in DOMAIN val.v /\ HasLocation(val.v[Head(parts)], Tail(parts))
    ELSE IF val.t = "list"
      THEN /\ IsIndexTok(Head(parts))
           /\ IndexOf(Head(parts)) < Len(val.v)
           /\ HasLocation(val.v[IndexOf(Head(parts)) + 1], Tail(parts))
    ELSE FALSE

\* the matches of a jsonpath_drop stage, in the order the stage deletes them
DeletionOrder(stage) ==
    sorted_longest_first(find(stage.pre, jsonpath_parse(stage.rule.path).segs, <<>>))

RECURSIVE WithValueAt(_, _, _)
WithValueAt(body, parts, value) ==
    IF Len(parts) = 1 THEN JObj((parts[1] :> value) @@ body.v)
    ELSE JObj((parts[1] :> WithValueAt(IF parts[1] \in DOMAIN body.v THEN body.v[parts[1]]
                                                                     ELSE EmptyObj,
                                       Tail(parts), value)) @@ body.v)

\* every object on the way to the location parts is an object or missing
RECURSIVE WayIsOpen(_, _)
WayIsOpen(body, parts) ==
    /\ body.t = "obj"
    /\ Len(parts) > 1 /\ parts[1] \in DOMAIN body.v => WayIsOpen(body.v[parts[1]], Tail(parts))

\* C20: jsonpath_add with path $.p1.....pn on an object body creates an
\* empty object at every missing p1..p(n-1), sets the configured value at
\* pn, overwriting what is there, and leaves every other key as it was; the
\* rule with path $.a.b.c and value 5 run on {} yields {"a": {"b": {"c": 5}}}.
C20_AddCreatesIntermediates ==
    /\ tPc = "done"
         => \A i \in 1..Len(tStages) :
              (tStages[i].rule.type = "jsonpath_add" /\ tStages[i].rule.value # NoValue
                 /\ WayIsOpen(tStages[i].pre, split(replace_root(tStages[i].rule.path))))
                => tStages[i].post = WithValueAt(tStages[i].pre,
                                                 split(replace_root(tStages[i].rule.path)),
                                                 tStages[i].rule.value)
    /\ (RuleNames(tConfig) = <<"addABC5">> /\ tData = EmptyObj /\ tPc # "init")
         => /\ tPc \in {"built", "done"}
            /\ tPc = "done"
                 => tResult = JObj("a" :> JObj("b" :> JObj("c" :> JNum(5))))

\* what a regex_replace stage's substitution produced: the text, and whether
\* the text is the JSON text of an object
RegexProducedObject(stage) ==
    LET text == re_sub(stage.rule.compiled, stage.rule.replacement, json_dumps(stage.pre))
    IN  /\ text.ok
        /\ json_loads(text.text).ok
        /\ json_loads(text.text).val.t = "obj"

\* C21: a regex_replace stage whose substitution yields text that is not the
\* JSON text of an object (unparsable, or a number, a string, an array)
\* returns its pre-stage body; so transform_request on a JSON object returns a
\* JSON object.
C21_RegexKeepsBodyAnObject ==
    tPc = "done"
      => /\ \A i \in 1..Len(tStages) :
               ( /\ tStages[i].rule.type = "regex_replace"
                 /\ tStages[i].rule.compiled.ok
                 /\ ~RegexProducedObject(tStages[i]) )
               => tStages[i].post = tStages[i].pre
         /\ tData.t = "obj" => tResult.t = "obj"

\* C22: transform_request and its stages never write into their input: after
\* the call the caller's body, nested objects and lists included, is what it
\* was before, and each stage returns its input untouched or a copy that
\* holds none of the caller's objects.
C22_InputNeverModifiedInPlace ==
    /\ [][tData' = tData]_vars
    /\ [](tPc = "done"
            => \A i \in 1..Len(tStages) :
                 LET handed == IF i = 1 THEN containers_below(tData, <<>>)
                                        ELSE tHeld[i - 1]
                 IN  \/ tStages[i].post = tStages[i].pre /\ tHeld[i] = handed
                     \/ tHeld[i] = {})

C22_Witness ==
    /\ tPc = "done"
    /\ Len(tStages) = 2
    /\ tStages[1].rule.type \in {"jsonpath_add", "jsonpath_drop"}
    /\ tStages[1].pre = tData
    /\ <<"a">> \in containers_below(tData, <<>>)
    /\ <<"a">> \in written_parents(tStages[1])
    /\ value_at(tStages[1].post, <<"a">>) # value_at(tData, <<"a">>)
    /\ tStages[2].post # tStages[2].pre
    /\ tHeld = << {}, {} >>

\* a rule list without the rules that are switched off
RECURSIVE WithoutDisabled(_)
WithoutDisabled(ts) ==
    IF ts = <<>> THEN <<>>
    ELSE IF Head(ts).enabled THEN <<Head(ts)>> \o WithoutDisabled(Tail(ts))
                             ELSE WithoutDisabled(Tail(ts))

\* C23: a rule with enabled = false is filtered out when the pipeline is
\* built and never evaluated: the pipeline is the one built from the list
\* without its disabled rules, it runs the stages and returns the body that
\* one does, and a disabled rule that would fail makes neither the build nor
\* a stage fail.
C23_DisabledRulesNeverEvaluated ==
    LET kept == WithoutDisabled(tConfig)
        pipeline == [i \in 1..Len(kept) |-> compile_config(kept[i])]
    IN  /\ ( /\ \A i \in 1..Len(tConfig) : value_accepted(tConfig[i].value)
             /\ \A i \in 1..Len(kept) : ~compile_fails(kept[i]) )
           => tPc \notin {"config_rejected", "build_failed"}
        /\ tPc \in {"built", "done", "raised"} => transformations = pipeline
        /\ tPc = "done"
             => /\ tStages = run_stages(tData, pipeline)
                /\ \A i \in 1..Len(tStages) : tStages[i].rule.enabled
                /\ tResult = (IF tStages = <<>> THEN tData ELSE tStages[Len(tStages)].post)

C23_Witness ==
    /\ tPc = "done"
    /\ \E i \in 1..Len(tConfig) : ~tConfig[i].enabled /\ compile_fails(tConfig[i])
    /\ Len(tStages) = 1
    /\ tStages[1].post # tData
    /\ tResult = tStages[1].post

\* a body without the values at the matched locations, every other value kept
RECURSIVE WithoutMatched(_, _, _)
WithoutMatched(val, path, matched) ==
    IF val.t = "obj"
      THEN LET keep == { k \in DOMAIN val.v : Append(path, k) \notin matched }
           IN  JObj([k \in keep |-> WithoutMatched(val.v[k], Append(path, k), matched)])
    ELSE IF val.t = "list"
      THEN LET at(i) == Append(path, IndexTok(i - 1))
               keep == SelectSeq([i \in 1..Len(val.v) |-> i], LAMBDA i : at(i) \notin matched)
           IN  JList([n \in 1..Len(keep) |->
                        WithoutMatched(val.v[keep[n]], at(keep[n]), matched)])
      ELSE val

\* C30: a jsonpath_drop stage that matched at least one location and did not
\* fail returns its input without the values at the matched locations and
\* with every other value; a path that matches several elements of one list
\* ("$.items[*]" on a list of three) removes them all.
C30_DropRemovesExactlyTheMatched ==
    tPc = "done"
      => \A i \in 1..Len(tStages) :
           (tStages[i].rule.type = "jsonpath_drop" /\ ~tStages[i].err
              /\ drop_targets(tStages[i]) # {})
             => /\ tStages[i].post
                     = WithoutMatched(tStages[i].pre, <<>>, drop_targets(tStages[i]))
                /\ (tStages[i].rule.path = <<"$", ".", "items", "[*]">>
                      /\ tStages[i].pre = JObj("items" :> JList(<<JNum(1), JNum(2), JNum(3)>>)))
                     => tStages[i].post = JObj("items" :> JList(<<>>))

\* the drop stage raised after it had deleted at least one match from its copy
FailedPartWay(stage) ==
    /\ stage.rule.type = "jsonpath_drop"
    /\ stage.err
    /\ Once(jsonpath_parse(stage.rule.path), LAMBDA jsonpath_expr :
         /\ jsonpath_expr.ok
         /\ deleted_so_far(stage.pre, sorted_longest_first(
                             find(stage.pre, jsonpath_expr.segs, <<>>))) # stage.pre)

\* C39: a jsonpath_drop stage that fails part-way through its deletions
\* returns its input with none of the deletions applied, and the next rule
\* (or the caller) is handed that input, never a partially dropped body.
C39_FailedDropReturnsItsInput ==
    tPc = "done"
      => \A i \in 1..Len(tStages) :
           FailedPartWay(tStages[i])
             => /\ tStages[i].post = tStages[i].pre
                /\ i < Len(tStages) => tStages[i + 1].pre = tStages[i].pre
                /\ i = Len(tStages) => tResult = tStages[i].pre

C39_Witness ==
    /\ tPc = "done"
    /\ Len(tStages) = 2
    /\ FailedPartWay(tStages[1])
    /\ "items" \in DOMAIN tStages[1].pre.v
    /\ tStages[2].pre = tStages[1].pre
    /\ tStages[2].post # tStages[2].pre

----------------------------------------------------------------------------
(* Claims about the header manipulator *)

\* C9: every key of force_headers is in the output of process_headers with
\* the forced value, whatever drop_all, the drop rules, add_headers and the
\* incoming headers say about that key.
C9_ForceHeadersAlwaysWin ==
    hPc = "processed"
      => \A k \in DOMAIN hConfig.force_headers :
            k \in DOMAIN hResult /\ hResult[k] = hConfig.force_headers[k]

C9_Witness ==
    /\ hPc = "processed"
    /\ ~hConfig.drop_all
    /\ \E k \in DOMAIN hConfig.force_headers :
          /\ k \in DOMAIN hIncoming
          /\ k \in DOMAIN hConfig.add_headers
          /\ Len(hConfig.drop_headers) = 1
          /\ is_regex_rule(hConfig.drop_headers[1])
          /\ hCompiled # <<>>
          /\ pattern_match(hCompiled[1], k)
          /\ hResult[k] = "forced"

HeadersProcessed == hPc \in {"processed", "reprocessed"}

\* the drop rules remove the name: it equals a rule without regex special
\* characters, ignoring case, or a rule with them that compiles matches at
\* the start of the name, ignoring case
DroppedByRule(name) ==
    \E i \in 1..Len(hConfig.drop_headers) :
        LET rule == hConfig.drop_headers[i]
        IN  IF is_regex_rule(rule)
              THEN header_pattern_ok(rule, FALSE) /\ pattern_match(rule, name)
              ELSE lower(rule) = lower(name)

\* C24: process_headers is idempotent: processing what it returned returns
\* the same map, for every policy and every incoming map.
C24_ProcessHeadersIdempotent ==
    hPc = "reprocessed" => hResult = hIncoming

C24_Witness ==
    /\ hPc = "reprocessed"
    /\ ~hConfig.drop_all
    /\ \E k \in DOMAIN hConfig.add_headers : DroppedByRule(k) /\ hResult[k] = "added"
    /\ \E k \in DOMAIN hResult : hResult[k] = "incoming"

\* C25: with drop_all set, process_headers returns add_headers overridden by
\* force_headers, whatever the incoming map: no incoming header survives.
C25_DropAllKeepsOnlyConfigured ==
    (HeadersProcessed /\ hConfig.drop_all)
      => /\ DOMAIN hResult = DOMAIN hConfig.add_headers \cup DOMAIN hConfig.force_headers
         /\ \A k \in DOMAIN hResult :
               hResult[k] = IF k \in DOMAIN hConfig.force_headers
                              THEN hConfig.force_headers[k]
                              ELSE hConfig.add_headers[k]

C25_Witness ==
    /\ hPc = "processed"
    /\ hConfig.drop_all
    /\ Cardinality(DOMAIN hIncoming) = 2
    /\ \E k \in DOMAIN hIncoming : k \notin DOMAIN hResult
    /\ \E k \in DOMAIN hIncoming : k \in DOMAIN hConfig.add_headers /\ hResult[k] = "added"
    /\ hConfig.force_headers # <<>>

\* C26: with drop_all false, an incoming header is removed by the drop step
\* exactly if its name equals an exact drop rule ignoring case or a compiled
\* drop pattern matches at the start of the name ignoring case; every other
\* incoming header is kept with its value unless force_headers overwrites it.
\* A rule without regex special characters never removes a longer name that
\* only begins with the rule's text.
C26_DropStepRemovesExactlyTheMatched ==
    (HeadersProcessed /\ ~hConfig.drop_all)
      => /\ \A k \in DOMAIN hIncoming :
               IF DroppedByRule(k)
                 THEN k \in DOMAIN hResult
                        => /\ k \in DOMAIN hConfig.add_headers \cup DOMAIN hConfig.force_headers
                           /\ hResult[k] = (hConfig.force_headers @@ hConfig.add_headers)[k]
                 ELSE /\ k \in DOMAIN hResult
                      /\ hResult[k] = (hConfig.force_headers @@ hIncoming)[k]
         /\ \A i \in 1..Len(hConfig.drop_headers), k \in DOMAIN hIncoming :
               ( /\ ~is_regex_rule(hConfig.drop_headers[i])
                 /\ Len(hConfig.drop_headers) = 1
                 /\ Len(k) > Len(hConfig.drop_headers[i])
                 /\ IsPrefix(lower(hConfig.drop_headers[i]), lower(k)) )
               => k \in DOMAIN hResult

C26_Witness ==
    /\ hPc = "processed"
    /\ ~hConfig.drop_all
    /\ hConfig.drop_headers = << <<"X", "-", "A">> >>
    /\ DOMAIN hIncoming = { <<"x", "-", "a">>, <<"x", "-", "b">> }
    /\ DOMAIN hResult = { <<"x", "-", "b">> }

\* C27: for every key of add_headers that is not a key of force_headers, the
\* output keeps the incoming value if the key is there after the drop step
\* and holds the add_headers value otherwise; the drop rules apply to the
\* incoming headers only, so an add_headers or force_headers entry whose name
\* matches a drop rule is in the output.
C27_AddOnlyIfAbsent ==
    HeadersProcessed
      => /\ \A k \in DOMAIN hConfig.add_headers \ DOMAIN hConfig.force_headers :
               /\ k \in DOMAIN hResult
               /\ hResult[k] = IF /\ ~hConfig.drop_all
                                  /\ k \in DOMAIN hIncoming
                                  /\ ~DroppedByRule(k)
                                 THEN hIncoming[k]
                                 ELSE hConfig.add_headers[k]
         /\ \A k \in DOMAIN hConfig.add_headers \cup DOMAIN hConfig.force_headers :
               k \in DOMAIN hResult

C27_Witness ==
    /\ hPc = "processed"
    /\ ~hConfig.drop_all
    /\ hConfig.force_headers = <<>>
    /\ \E k \in DOMAIN hConfig.add_headers :
          /\ k \in DOMAIN hIncoming
          /\ ~DroppedByRule(k)
          /\ hResult[k] = "incoming"
    /\ \E k \in DOMAIN hIncoming : DroppedByRule(k) /\ k \notin DOMAIN hResult

\* no two names of the headers are equal ignoring letter case
DistinctIgnoringCase(headers) ==
    \A k1, k2 \in DOMAIN headers : lower(k1) = lower(k2) => k1 = k2

\* C35: the output of process_headers never holds two names that are equal
\* ignoring letter case (given incoming headers that hold none): a
\* force_headers key that differs only in case from an incoming header
\* replaces it, and an add_headers key that differs only in case from a
\* surviving incoming header is treated as present and not added.
C35_NoTwoNamesEqualIgnoringCase ==
    (hPc = "processed" /\ DistinctIgnoringCase(hIncoming))
      => /\ DistinctIgnoringCase(hResult)
         /\ \A k \in DOMAIN hConfig.force_headers :
              \A j \in DOMAIN hResult :
                lower(j) = lower(k) => hResult[j] = hConfig.force_headers[k]
         /\ \A k \in DOMAIN hConfig.add_headers :
              (\E j \in DOMAIN hIncoming :
                 lower(j) = lower(k) /\ j # k /\ j \in DOMAIN hResult
                   /\ k \notin DOMAIN hConfig.force_headers)
                => k \notin DOMAIN hResult

----------------------------------------------------------------------------
(* Claims about the calls of the clients *)

StageRank(e) == CASE e = "headers" -> 1 [] e = "transform" -> 2 [] OTHER -> 3

CountOf(e, log) == Cardinality({ i \in 1..Len(log) : log[i] = e })

\* C11: within one call, buffered or streaming, the headers are rewritten
\* before the body is transformed and the body is transformed before the
\* first send; each of the two rewrites runs exactly once per call, so every
\* attempt of the call sends the same rewritten headers and body.
C11_StagesInOrderOncePerRequest ==
    \A r \in DOMAIN requests :
        LET q == requests[r] IN
        /\ \A i, j \in 1..Len(q.log) :
               i < j => StageRank(q.log[i]) <= StageRank(q.log[j])
        /\ CountOf("headers", q.log) <= 1
        /\ CountOf("transform", q.log) <= 1
        /\ CountOf("send", q.log) = Len(q.sends)
        /\ q.sends # <<>> =>
               /\ CountOf("headers", q.log) = 1
               /\ CountOf("transform", q.log) = 1
        /\ \A i \in 1..Len(q.sends) :
               /\ q.sends[i] = q.sends[1]
               /\ q.sends[i].headers = q.prepared_headers
               /\ q.sends[i].json = q.body

C11_Witness ==
    /\ \E r \in DOMAIN requests :
           /\ requests[r].mode = "buffered"
           /\ Len(requests[r].sends) = 2
           /\ requests[r].body # requests[r].data
    /\ \E r \in DOMAIN requests :
           /\ requests[r].mode = "streaming"
           /\ Len(requests[r].sends) = 1

\* what the configuration, as loaded, builds (main.py:77)
BuiltTransformations ==
    [i \in 1..Len(enabled_only(tConfig)) |-> compile_config(enabled_only(tConfig)[i])]

\* the body a call would send if it were the only one
BodyAlone(data) ==
    LET stages == run_stages(data, BuiltTransformations)
    IN  IF stages = <<>> THEN data ELSE stages[Len(stages)].post

\* C12: however the concurrent calls interleave, the shared header policy,
\* the shared rule list (with the value object of each jsonpath_add rule,
\* which the bodies hold) and the retry policy are never modified after
\* construction, and each call's rewritten headers and body are those it
\* would produce running alone.
C12_SharedPoliciesNeverModified ==
    /\ [][/\ transformations' = transformations
          /\ tConfig' = tConfig
          /\ hConfig' = hConfig
          /\ hExact' = hExact
          /\ hCompiled' = hCompiled
          /\ config' = config]_vars
    /\ [](\A r \in DOMAIN requests :
            requests[r].pc \notin {"received", "new"} =>
               /\ requests[r].prepared_headers = prepare_headers(requests[r].model_config,
                                                                requests[r].inbound)
               /\ requests[r].body = BodyAlone(requests[r].data))

C12_Witness ==
    \E r1, r2 \in DOMAIN requests :
        /\ r1 # r2
        /\ requests[r1].pc = "sleeping"
        /\ requests[r2].pc \in {"sending", "streaming"}
        /\ requests[r1].aliases # {}
        /\ requests[r2].aliases # {}
        /\ \E al \in requests[r1].aliases :
               value_at(requests[r1].body, al.at) = transformations[al.rule].value

\* C15: a streaming call whose connection attempt failed with a network
\* failure, before any byte flowed, is retried as the retry policy says: it
\* fails for good only after max_retries + 1 connection attempts.
C15_StreamingConnectRetried ==
    \A r \in DOMAIN requests :
        ( /\ requests[r].mode = "streaming"
          /\ requests[r].pc = "raised"
          /\ IsNetworkFailure(requests[r].outcome) )
        => Len(requests[r].sends) = config.max_retries + 1

\* the provider identifier holds "anthropic", in whatever case
NamesAnthropic(provider) ==
    \E i \in 1..Len(provider) :
        /\ i + 8 <= Len(provider)
        /\ [j \in 1..9 |-> LowerChar(provider[i + j - 1])] = Anthropic

\* C28: with a credential configured, _prepare_headers attaches it before the
\* header engine runs: x-api-key and anthropic-version 2023-06-01, and no
\* authorization, if the provider identifier holds "anthropic" in whatever
\* case; authorization "Bearer <credential>", and no x-api-key, for every
\* other provider. These headers enter process_headers as incoming and are
\* subject to its drop, add and force steps.
C28_CredentialAttachedBeforeEngine ==
    \A r \in DOMAIN requests :
        LET q == requests[r]
            key == q.model_config.api_key
        IN  q.pc \notin {"received", "new"}
              => /\ (key # "" /\ NamesAnthropic(q.model_config.provider))
                      => /\ XApiKey \in DOMAIN q.incoming
                         /\ q.incoming[XApiKey] = key
                         /\ AnthropicVersion \in DOMAIN q.incoming
                         /\ q.incoming[AnthropicVersion] = "2023-06-01"
                         /\ Authorization \notin DOMAIN q.incoming
                 /\ (key # "" /\ ~NamesAnthropic(q.model_config.provider))
                      => /\ Authorization \in DOMAIN q.incoming
                         /\ q.incoming[Authorization] = "Bearer " \o key
                         /\ XApiKey \notin DOMAIN q.incoming
                 /\ \A k \in DOMAIN q.incoming :
                      IF k \in DOMAIN hConfig.force_headers
                        THEN q.prepared_headers[k] = hConfig.force_headers[k]
                      ELSE IF hConfig.drop_all \/ DroppedByRule(k)
                        THEN k \in DOMAIN q.prepared_headers
                               => /\ k \in DOMAIN hConfig.add_headers
                                  /\ q.prepared_headers[k] = hConfig.add_headers[k]
                        ELSE /\ k \in DOMAIN q.prepared_headers
                             /\ q.prepared_headers[k] = q.incoming[k]

C28_Witness ==
    \E r1, r2 \in DOMAIN requests :
        /\ requests[r1].pc \notin {"received", "new"}
        /\ requests[r2].pc \notin {"received", "new"}
        /\ requests[r1].model_config.provider # Anthropic
        /\ NamesAnthropic(requests[r1].model_config.provider)
        /\ XApiKey \in DOMAIN requests[r1].incoming
        /\ XApiKey \notin DOMAIN requests[r1].prepared_headers
        /\ ~NamesAnthropic(requests[r2].model_config.provider)
        /\ Authorization \in DOMAIN requests[r2].incoming
        /\ Authorization \in DOMAIN requests[r2].prepared_headers
        /\ requests[r2].incoming[Authorization] = "Bearer sk"
        /\ requests[r2].prepared_headers[Authorization] = "forced"

\* C29: when the resolved model record has an actual_model_name, the body
\* sent upstream carries it as model instead of the name the caller used, on
\* chat completions, completions and message creation, buffered or streaming;
\* when the record has none, model is the name the caller sent.
C29_ActualModelNameSent ==
    \A r \in DOMAIN requests :
        \A i \in 1..Len(requests[r].sends) :
            LET c == requests[r].model_config
            IN  value_at(requests[r].sends[i].json, <<"model">>)
                  = JStr(IF c.actual_model_name # "" THEN c.actual_model_name ELSE c.name)

\* call r has built the headers it sends
HeadersPrepared(r) == requests[r].pc \notin {"received", "new"}

\* C33: the headers sent upstream depend on the model record and the header
\* policy only: two calls for the same model that differ in their inbound
\* HTTP headers send identical headers, and no header of the inbound caller
\* (its own authorization, for one) is forwarded upstream.
C33_InboundHeadersNeverForwarded ==
    /\ \A r1, r2 \in DOMAIN requests :
         (/\ HeadersPrepared(r1)
          /\ HeadersPrepared(r2)
          /\ requests[r1].model_config = requests[r2].model_config)
           => requests[r1].prepared_headers = requests[r2].prepared_headers
    /\ \A r \in DOMAIN requests :
         \A i \in 1..Len(requests[r].sends) :
           LET sent == requests[r].sends[i].headers
           IN  /\ sent = process_headers(credential_headers(requests[r].model_config))
               /\ \A k \in DOMAIN requests[r].inbound :
                    k \in DOMAIN sent => sent[k] # requests[r].inbound[k]

C33_Witness ==
    /\ hConfig.drop_headers = <<>>
    /\ hConfig.force_headers = <<>>
    /\ requests[1].model_config = requests[2].model_config
    /\ requests[1].inbound # requests[2].inbound
    /\ Authorization \in DOMAIN requests[1].inbound
    /\ requests[1].sends # <<>>
    /\ requests[2].sends # <<>>
    /\ requests[1].sends[1].headers = requests[2].sends[1].headers
    /\ requests[1].sends[1].headers[Authorization] = "Bearer sk"

\* the value the header policy configures for name k
ConfiguredHeader(k) ==
    IF k \in DOMAIN hConfig.force_headers THEN hConfig.force_headers[k]
                                          ELSE hConfig.add_headers[k]

\* C34: with drop_all set, a header attached by the credential pre-step
\* (x-api-key and anthropic-version, or authorization) or the default
\* content-type is absent from the request sent upstream unless add_headers
\* or force_headers configure a header of that name, and then it carries the
\* configured value: the configured credential never reaches the upstream.
C34_DropAllDropsTheCredential ==
    hConfig.drop_all
      => \A r \in DOMAIN requests :
           \A i \in 1..Len(requests[r].sends) :
             LET sent == requests[r].sends[i].headers
             IN  \A k \in DOMAIN requests[r].incoming :
                   IF k \in DOMAIN hConfig.add_headers \cup DOMAIN hConfig.force_headers
                     THEN k \in DOMAIN sent /\ sent[k] = ConfiguredHeader(k)
                     ELSE k \notin DOMAIN sent

C34_Witness ==
    /\ hConfig.drop_all
    /\ \E r1, r2 \in DOMAIN requests :
         /\ requests[r1].sends # <<>>
         /\ Authorization \in DOMAIN requests[r1].incoming
         /\ requests[r1].incoming[Authorization] = "Bearer sk"
         /\ Authorization \notin DOMAIN requests[r1].sends[1].headers
         /\ requests[r1].sends[1].headers[ContentType] = "added"
         /\ requests[r2].sends # <<>>
         /\ XApiKey \in DOMAIN requests[r2].incoming
         /\ requests[r2].incoming[XApiKey] = "sk"
         /\ DOMAIN requests[r2].sends[1].headers = {ContentType}

\* C36: in buffered mode the inbound caller receives the upstream's final
\* answer with its original status code: an upstream response with an error
\* status, returned at once because it is not retryable or after the retries
\* are used up, reaches the caller with that status code and that body, not
\* as a success and not as an internal failure.
C36_UpstreamStatusReachesCaller ==
    \A r \in DOMAIN requests :
      LET q == requests[r]
      IN  (/\ q.mode = "buffered"
           /\ q.pc = "returned"
           /\ q.outcome.kind = "Response"
           /\ body_is_json(q.outcome))
            => /\ q.answer.body = q.outcome
               /\ q.answer.status_code = q.outcome.status_code

BufferedOver(r) ==
    requests[r].mode = "buffered" /\ requests[r].pc \in {"returned", "raised"}

\* C38: in buffered mode the client of the call (its transport) is closed
\* exactly once when the call is over, on every path: a successful response,
\* an error response returned after the retries are used up, a network
\* failure that is propagated, a failure that is not retried, and an
\* upstream body that is not JSON; it is not closed while the call goes on.
C38_BufferedTransportClosedOnce ==
    \A r \in DOMAIN requests :
      requests[r].mode = "buffered"
        => /\ BufferedOver(r) => requests[r].closes = 1
           /\ ~BufferedOver(r) => requests[r].closes = 0

C38_Witness ==
    /\ config.max_retries = 1
    /\ BufferedOver(1)
    /\ Len(requests[1].sends) = 2
    /\ requests[1].outcome = Response(429, 0)
    /\ requests[1].closes = 1
    /\ BufferedOver(2)
    /\ requests[2].outcome = Response(200, 1)
    /\ requests[2].answer = internal_error(Exc("JSONDecodeError", 0))
    /\ requests[2].closes = 1

====
